---------------------------- MODULE Spec2Model ----------------------------
(***************************************************************************)
(* A model of src/lib/pack.ts: the read path of git pack files.            *)
(*                                                                         *)
(*  - the Store Registry: the module-level LRU cache `packsCache` and the  *)
(*    in-flight map `processings`, with Packs.initialize (suspending) and  *)
(*    Packs.initializeSync (blocking);                                     *)
(*  - the Pack Store: Packs.unpackGitObject / unpackGitObjectSync and the  *)
(*    private helpers they call, with the decoded-object cache.            *)
(*                                                                         *)
(* JavaScript runs one callback at a time.  A suspending function is       *)
(* modelled by one action per I/O completion: the action holds the code    *)
(* that runs from that completion up to the next I/O request (or to the    *)
(* end of the call).  A blocking function is one action.                   *)
(***************************************************************************)
EXTENDS Integers, Sequences, FiniteSets, TLC

(***************************************************************************)
(* Bounds of the model.                                                    *)
(***************************************************************************)
\* initialize / initializeSync calls issued in one behaviour
MaxInitCalls == 6
\* unpackGitObject / unpackGitObjectSync calls issued in one behaviour
MaxCalls == 2
\* injected I/O failures (open, read) in one behaviour of the Pack Store
MaxFaults == 1
\* index files of the largest pack directory, for the read that fails
MaxIdxFiles == 2
\* the I/O requests of a blocking call among which one may fail
MaxSyncIo == 7
\* initialize / initializeSync calls issued for directories without packs
MaxEmptyInits == 3

(***************************************************************************)
(* Program constants.                                                      *)
(***************************************************************************)
LruMax == 4
HashLen == 20
HeadLen == 32
\* 0xff744f63 as two 16-bit halves; 0x8000, the high bit of the upper half
IdxMagic == [hi |-> 65396, lo |-> 20323]
HighHalf == 32768
FanoutLast == 1020
BufErrno == -5
DataErrno == -3
InitialPad == 32
RetryGrow == 128

COMMIT == 1
TREE == 2
BLOB == 3
TAG == 4
OFS_DELTA == 6
REF_DELTA == 7

(***************************************************************************)
(* Bytes and buffers.  A Buffer is a sequence of bytes; offsets are        *)
(* 0-based as in the source.                                               *)
(***************************************************************************)
Zeros(k) == [i \in 1..k |-> 0]

Min(a, b) == IF a < b THEN a ELSE b

\* buff.slice(from, to): clamped to the buffer, never throws
Slice(buff, from, to) ==
    LET lo == Min(from, Len(buff))
        hi == Min(to, Len(buff))
    IN  IF hi <= lo THEN <<>> ELSE SubSeq(buff, lo + 1, hi)

\* TLC's integers are 32-bit signed: an unsigned 32-bit value is kept as its
\* two 16-bit halves, and Number gives its value when it is below 2^31
Thrown == [hi |-> 0 - 1, lo |-> 0 - 1]

\* buff.readUInt32BE(off); Thrown when off is out of range (RangeError)
readUInt32BE(buff, off) ==
    IF off < 0 \/ off + 4 > Len(buff)
    THEN Thrown
    ELSE [hi |-> buff[off + 1] * 256 + buff[off + 2],
          lo |-> buff[off + 3] * 256 + buff[off + 4]]

\* buff.readUInt16BE(off); Thrown when off is out of range (RangeError)
readUInt16BE(buff, off) ==
    IF off < 0 \/ off + 2 > Len(buff)
    THEN Thrown
    ELSE [hi |-> 0, lo |-> buff[off + 1] * 256 + buff[off + 2]]

\* offset & 0x80000000
HighBitSet(w) == w.hi >= HighHalf

Number(w) == w.hi * 65536 + w.lo

\* buff.readUInt32BE(k * 4294967296): a buffer read from a file is shorter
\* than 2^32 bytes, so every k >= 1 is out of range
readUInt32BEScaled(buff, k) ==
    IF k = 0 THEN readUInt32BE(buff, 0) ELSE Thrown

HexDigits ==
    <<"0", "1", "2", "3", "4", "5", "6", "7",
      "8", "9", "a", "b", "c", "d", "e", "f">>

RECURSIVE toHex(_)
toHex(bytes) ==
    IF bytes = <<>> THEN <<>>
    ELSE <<HexDigits[(Head(bytes) \div 16) + 1], HexDigits[(Head(bytes) % 16) + 1]>>
         \o toHex(Tail(bytes))

\* readHash(buff, offset): the 20 bytes at offset as a hex string
\* (a string is modelled as the sequence of its characters)
readHash(buff, offset) == toHex(Slice(buff, offset, offset + HashLen))

(***************************************************************************)
(* Maps (JavaScript Map / object used as a dictionary).                    *)
(***************************************************************************)
EmptyMap == [k \in {} |-> 0]

MapHas(m, k) == k \in DOMAIN m

MapSet(m, k, v) == [x \in (DOMAIN m) \cup {k} |-> IF x = k THEN v ELSE m[x]]

(***************************************************************************)
(* Index parser.                                                           *)
(***************************************************************************)
\* the version >= 2 loop of setupPackedIndexMap, from iteration i on
RECURSIVE IndexLoopV2(_, _, _, _, _, _, _, _)
IndexLoopV2(buff, fileIndex, map, i, n, index, off32, off64) ==
    IF i >= n THEN [ok |-> TRUE, map |-> map]
    ELSE
      LET hash == readHash(buff, index)
          o32  == readUInt32BE(buff, off32)
          big  == o32 # Thrown /\ HighBitSet(o32)
          hi   == readUInt32BEScaled(buff, off64)
          lo   == readUInt16BE(buff, off64 + 4)
          offset == IF big THEN Number(hi) + Number(lo) ELSE Number(o32)
          off64n == IF big THEN off64 + 8 ELSE off64
      IN  IF o32 = Thrown \/ (big /\ (hi = Thrown \/ lo = Thrown))
          THEN [ok |-> FALSE, map |-> map]
          ELSE IndexLoopV2(buff, fileIndex,
                           MapSet(map, hash, [offset |-> offset, fileIndex |-> fileIndex]),
                           i + 1, n, index + 20, off32 + 4, off64n)

\* the version 1 loop of setupPackedIndexMap, from iteration i on
RECURSIVE IndexLoopV1(_, _, _, _, _, _)
IndexLoopV1(buff, fileIndex, map, i, n, index) ==
    IF i >= n THEN [ok |-> TRUE, map |-> map]
    ELSE
      LET offset == readUInt32BE(buff, index)
          hash   == readHash(buff, index + 4)
      IN  IF offset = Thrown
          THEN [ok |-> FALSE, map |-> map]
          ELSE IndexLoopV1(buff, fileIndex,
                           MapSet(map, hash,
                                  [offset |-> Number(offset), fileIndex |-> fileIndex]),
                           i + 1, n, index + 24)

\* setupPackedIndexMap(idxFileBuffer, fileIndex, map): ok = FALSE when a
\* read past the end of the buffer throws
setupPackedIndexMap(buff, fileIndex, map) ==
    LET first    == readUInt32BE(buff, 0)
        hasMagic == first = IdxMagic
        version  == IF hasMagic THEN readUInt32BE(buff, 4) ELSE [hi |-> 0, lo |-> 1]
        index0   == IF hasMagic THEN FanoutLast + 8 ELSE FanoutLast
        nw       == readUInt32BE(buff, index0)
        n        == Number(nw)
        index    == index0 + 4
    IN  IF first = Thrown \/ version = Thrown \/ nw = Thrown
        THEN [ok |-> FALSE, map |-> map]
        ELSE IF version.hi > 0 \/ version.lo > 1
             THEN IndexLoopV2(buff, fileIndex, map, 0, n, index,
                              index + n * 24, index + n * 24 + n * 4)
             ELSE IndexLoopV1(buff, fileIndex, map, 0, n, index)

(***************************************************************************)
(* The file system the program reads.  A path is the sequence of its       *)
(* components and a file name the sequence of its dot-separated parts.     *)
(* Eight repository directories:                                           *)
(*   d1  two index files (version 2 and version 1) and their packs         *)
(*   d2  one version 1 index file                                          *)
(*   d3  no objects/pack directory (readdir fails)                         *)
(*   d4  a pack directory without any *.idx file                           *)
(*   d5  an unreadable pack directory (readdir fails)                      *)
(*   d6  an empty pack directory                                           *)
(*   d7  two index files that list one hash both, and their packs          *)
(*   d8  a version 2 index file with an entry in its 64-bit offset table   *)
(***************************************************************************)
Dirs == {"d1", "d2", "d3", "d4", "d5", "d6", "d7", "d8"}

\* directories whose pack directory is missing, unreadable or without *.idx
EmptyDirs == {"d3", "d4", "d5", "d6"}

HashBytes(n) == <<n>> \o Zeros(HashLen - 1)

U32(n) ==
    <<(n \div 16777216) % 256, (n \div 65536) % 256, (n \div 256) % 256, n % 256>>

RECURSIVE Flatten(_)
Flatten(ss) == IF ss = <<>> THEN <<>> ELSE Head(ss) \o Flatten(Tail(ss))

\* a version 2 index file listing entries <<hash number, offset>>
IdxV2(entries) ==
    LET n == Len(entries)
    IN  <<255, 116, 79, 99>> \o U32(2) \o Zeros(FanoutLast) \o U32(n)
        \o Flatten([i \in 1..n |-> HashBytes(entries[i][1])])
        \o Zeros(4 * n)
        \o Flatten([i \in 1..n |-> U32(entries[i][2])])
        \o Zeros(2 * HashLen)

\* a version 1 index file listing entries <<hash number, offset>>
IdxV1(entries) ==
    LET n == Len(entries)
    IN  Zeros(FanoutLast) \o U32(n)
        \o Flatten([i \in 1..n |-> U32(entries[i][2]) \o HashBytes(entries[i][1])])
        \o Zeros(2 * HashLen)

IdxA == IdxV2(<<<<1, 12>>, <<2, 40>>, <<3, 70>>, <<4, 100>>, <<5, 130>>, <<6, 160>>>>)
IdxB == IdxV1(<<<<7, 12>>, <<8, 40>>, <<9, 70>>, <<10, 110>>, <<11, 150>>, <<12, 400>>>>)
IdxC == IdxV1(<<<<1, 12>>, <<21, 40>>, <<22, 50>>, <<23, 60>>, <<24, 70>>, <<25, 80>>,
               <<26, 100>>, <<27, 140>>, <<28, 230>>, <<29, 260>>, <<30, 300>>,
               <<31, 520>>>>)

\* the offset a large pack holds the object of hash number 42 at
LargeOffset == 500

\* a version 2 index file of two entries: hash number 41 at offset 12, and
\* hash number 42 with the high bit of its 32-bit entry set and entry 0 of
\* the 64-bit table, LargeOffset, as its offset
IdxL ==
    <<255, 116, 79, 99>> \o U32(2) \o Zeros(FanoutLast) \o U32(2)
    \o HashBytes(41) \o HashBytes(42)
    \o Zeros(4 * 2)
    \o U32(12) \o <<128, 0, 0, 0>>
    \o U32(0) \o U32(LargeOffset)
    \o Zeros(2 * HashLen)

\* path.join(gitDir, 'objects', 'pack')
PackDirOf(gitDir) == <<gitDir, "objects", "pack">>

\* fs.readdir(packDir): ok = FALSE when it throws
FsReaddir(packDir) ==
    CASE packDir = PackDirOf("d1") ->
           [ok |-> TRUE, names |-> << <<"pack-a", "idx">>, <<"pack-a", "pack">>,
                                      <<"pack-b", "idx">>, <<"pack-b", "pack">> >>]
      [] packDir = PackDirOf("d2") ->
           [ok |-> TRUE, names |-> << <<"README">>, <<"pack-c", "idx">>,
                                      <<"pack-c", "pack">> >>]
      [] packDir = PackDirOf("d4") ->
           [ok |-> TRUE, names |-> << <<"pack-d", "idx", "bak">>, <<"pack-d", "pack">>,
                                      <<"idx">> >>]
      [] packDir = PackDirOf("d6") -> [ok |-> TRUE, names |-> <<>>]
      [] packDir = PackDirOf("d7") ->
           [ok |-> TRUE, names |-> << <<"pack-e", "idx">>, <<"pack-e", "pack">>,
                                      <<"pack-f", "idx">>, <<"pack-f", "pack">> >>]
      [] packDir = PackDirOf("d8") ->
           [ok |-> TRUE, names |-> << <<"pack-l", "idx">>, <<"pack-l", "pack">> >>]
      [] OTHER -> [ok |-> FALSE, names |-> <<>>]

\* the bytes of packDir/<name>.idx
FsIdxFile(packDir, name) ==
    CASE packDir = PackDirOf("d1") /\ name = "pack-a" -> IdxA
      [] packDir = PackDirOf("d1") /\ name = "pack-b" -> IdxB
      [] packDir = PackDirOf("d7") /\ name = "pack-e" -> IdxA
      [] packDir = PackDirOf("d8") /\ name = "pack-l" -> IdxL
      [] OTHER -> IdxC

\* a filter that takes every name with a part "idx"
RECURSIVE IdxBaseNamesAnyIdx(_)
IdxBaseNamesAnyIdx(names) ==
    IF names = <<>> THEN <<>>
    ELSE LET name == Head(names)
         IN  (IF \E i \in 1..Len(name) : name[i] = "idx" THEN <<name[1]>> ELSE <<>>)
             \o IdxBaseNamesAnyIdx(Tail(names))

RECURSIVE IdxBaseNames(_)
\* .filter(name => /\.idx$/.test(name)).map(name => name.split(".").shift())
IdxBaseNames(names) ==
    IF names = <<>> THEN <<>>
    ELSE LET name == Head(names)
         IN  (IF Len(name) >= 2 /\ name[Len(name)] = "idx" THEN <<name[1]>> ELSE <<>>)
             \o IdxBaseNames(Tail(names))

(***************************************************************************)
(* Packs instances.                                                        *)
(***************************************************************************)
\* new Packs(packDir, packFileNames, packedIndexMap)
NewPacks(packDir, packFileNames, packedIndexMap) ==
    [packDir |-> packDir,
     packFileNames |-> packFileNames,
     packedIndexMap |-> packedIndexMap,
     hasPackFiles |-> Len(packFileNames) # 0,
     packedObjectCache |-> EmptyMap]

\* new Packs(gitDir)
NewEmptyPacks(gitDir) == NewPacks(<<gitDir>>, <<>>, EmptyMap)

(***************************************************************************)
(* The LRU cache packsCache = LRU<Packs>(4): a sequence of entries, the    *)
(* most recently used first.                                               *)
(***************************************************************************)
\* no Packs reference, no promise (undefined)
NoRef == <<>>

LruKeys(c) == {c[i].key : i \in 1..Len(c)}

LruIndex(c, k) == CHOOSE i \in 1..Len(c) : c[i].key = k

LruWithout(c, k) == SelectSeq(c, LAMBDA e : e.key # k)

\* cache.get(k) without the recency update (lru-cache's peek)
LruPeekOnly(c, k) ==
    IF k \in LruKeys(c)
    THEN [hit |-> TRUE, value |-> c[LruIndex(c, k)].value, cache |-> c]
    ELSE [hit |-> FALSE, value |-> NoRef, cache |-> c]

\* packsCache.get(gitDir): the value, and the cache with the entry made the
\* most recently used
packsCacheGet(c, k) ==
    IF k \in LruKeys(c)
    THEN LET e == c[LruIndex(c, k)]
         IN  [hit |-> TRUE, value |-> e.value, cache |-> <<e>> \o LruWithout(c, k)]
    ELSE [hit |-> FALSE, value |-> NoRef, cache |-> c]

\* packsCache.set(gitDir, packs): insert or replace as the most recently
\* used entry, then drop least recently used entries beyond the capacity
packsCacheSet(c, k, v) ==
    LET put == <<[key |-> k, value |-> v]>> \o LruWithout(c, k)
    IN  IF Len(put) > LruMax THEN SubSeq(put, 1, LruMax) ELSE put


(***************************************************************************)
(* The pack files of d1.  An object is given by the bytes of its header    *)
(* (with its delta field), the place of its compressed payload (zoff,      *)
(* from the object's offset), the length of that zlib stream (clen), what  *)
(* it inflates to (out) and whether the stream is corrupt (bad).           *)
(*                                                                         *)
(*   pack-a  12 A commit            40 B ofs-delta of A   70 C ofs-delta   *)
(*           of B    100 T tree    130 X commit, corrupt stream            *)
(*           160 R tag, stream longer than the first buffer                *)
(*   pack-b  12 Q commit            40 P ofs-delta of Q, wrong base size   *)
(*           70 E ref-delta of A   110 F ref-delta of an unknown hash      *)
(*           150 Y ref-delta of X  400 W ofs-delta of Q, 2-byte distance   *)
(***************************************************************************)
Obj(head, clen, out, bad) ==
    [head |-> head, zoff |-> Len(head), clen |-> clen, out |-> out, bad |-> bad]

PackA ==
    (12 :> Obj(<<19>>, 11, <<10, 11, 12>>, FALSE))
    @@ (40 :> Obj(<<102, 28>>, 14, <<3, 4, 144, 3, 1, 13>>, FALSE))
    @@ (70 :> Obj(<<102, 30>>, 14, <<4, 5, 144, 4, 1, 14>>, FALSE))
    @@ (100 :> Obj(<<34>>, 10, <<1, 1>>, FALSE))
    @@ (130 :> Obj(<<19>>, 11, <<>>, TRUE))
    @@ (160 :> Obj(<<196, 1>>, 90, [i \in 1..20 |-> 30 + i], FALSE))

PackB ==
    (12 :> Obj(<<18>>, 10, <<20, 21>>, FALSE))
    @@ (40 :> Obj(<<102, 28>>, 14, <<5, 6, 144, 5, 1, 9>>, FALSE))
    @@ (70 :> Obj(<<118>> \o HashBytes(1), 14, <<3, 4, 144, 3, 1, 15>>, FALSE))
    @@ (110 :> Obj(<<118>> \o HashBytes(99), 14, <<3, 4, 144, 3, 1, 16>>, FALSE))
    @@ (150 :> Obj(<<118>> \o HashBytes(5), 14, <<3, 4, 144, 3, 1, 17>>, FALSE))
    @@ (400 :> Obj(<<102, 130, 4>>, 14, <<2, 3, 144, 2, 1, 22>>, FALSE))

(***************************************************************************)
(* The pack file of d2, with objects a well-formed pack does not hold:     *)
(*   pack-c  12 K commit      40 tree      50 blob      60 type code 0     *)
(*           70 type code 5   80 ofs-delta with distance 0 (its own base)  *)
(*           100 and 140 ref-deltas, each naming the other as its base     *)
(*           200 U commit, in no index     230 V ofs-delta of U            *)
(*           260 Z ofs-delta of V          300 S commit, a stream that     *)
(*           takes two retries        520 commit, corrupt stream           *)
(***************************************************************************)
PackC ==
    (12 :> Obj(<<19>>, 11, <<10, 11, 12>>, FALSE))
    @@ (40 :> Obj(<<34>>, 10, <<1, 1>>, FALSE))
    @@ (50 :> Obj(<<50>>, 10, <<2, 2>>, FALSE))
    @@ (60 :> Obj(<<2>>, 10, <<3, 3>>, FALSE))
    @@ (70 :> Obj(<<82>>, 10, <<4, 4>>, FALSE))
    @@ (80 :> Obj(<<102, 0>>, 14, <<3, 4, 144, 3, 1, 13>>, FALSE))
    @@ (100 :> Obj(<<118>> \o HashBytes(27), 14, <<3, 4, 144, 3, 1, 18>>, FALSE))
    @@ (140 :> Obj(<<118>> \o HashBytes(26), 14, <<4, 5, 144, 4, 1, 19>>, FALSE))
    @@ (200 :> Obj(<<18>>, 10, <<40, 41>>, FALSE))
    @@ (230 :> Obj(<<102, 30>>, 14, <<2, 3, 144, 2, 1, 42>>, FALSE))
    @@ (260 :> Obj(<<102, 30>>, 14, <<3, 4, 144, 3, 1, 43>>, FALSE))
    @@ (300 :> Obj(<<17>>, 200, <<50>>, FALSE))
    @@ (520 :> Obj(<<19>>, 11, <<>>, TRUE))

\* the objects of the pack file at path, by offset
FsPackFile(path) ==
    CASE path = PackDirOf("d1") \o <<"pack-a", "pack">> -> PackA
      [] path = PackDirOf("d1") \o <<"pack-b", "pack">> -> PackB
      [] path = PackDirOf("d2") \o <<"pack-c", "pack">> -> PackC
      [] path = PackDirOf("d7") \o <<"pack-e", "pack">> -> PackA
      [] path = PackDirOf("d7") \o <<"pack-f", "pack">> -> PackC
      [] OTHER -> EmptyMap

\* whether fs.open finds the file
FsExists(path) ==
    path \in {PackDirOf("d1") \o <<"pack-a", "pack">>, PackDirOf("d1") \o <<"pack-b", "pack">>,
              PackDirOf("d2") \o <<"pack-c", "pack">>,
              PackDirOf("d7") \o <<"pack-e", "pack">>, PackDirOf("d7") \o <<"pack-f", "pack">>}

\* fs.read(fd, head, 0, 32, offset) into the zero-filled Buffer.alloc(32):
\* the header and delta field of the object at offset; the bytes after them
\* (the payload) are not looked at by the program and are left as zeros
FsReadHead(path, offset) ==
    LET file == FsPackFile(path)
    IN  IF offset \in DOMAIN file
        THEN file[offset].head \o Zeros(HeadLen - Len(file[offset].head))
        ELSE Zeros(HeadLen)

\* fs.read(fd, buff, 0, size, position): what the size bytes at position
\* hold: the first size bytes of the zlib stream that starts there, if one
\* does (NoStream: the bytes are no zlib stream)
NoStream == [found |-> FALSE, size |-> 0, clen |-> 0, out |-> <<>>, bad |-> FALSE]

FsReadPayload(path, position, size) ==
    LET file  == FsPackFile(path)
        start == {o \in DOMAIN file : o + file[o].zoff = position}
    IN  IF start = {} THEN [NoStream EXCEPT !.size = size]
        ELSE LET e == file[CHOOSE o \in start : TRUE]
             IN  [found |-> TRUE, size |-> size, clen |-> e.clen,
                  out |-> e.out, bad |-> e.bad]

\* zlib.inflate(buff): the inflated bytes, or the errno of the error: a
\* stream cut short by the end of the buffer is Z_BUF_ERROR (-5), bytes that
\* are no valid stream are Z_DATA_ERROR (-3)
Inflate(buff) ==
    IF ~buff.found \/ buff.bad THEN [errno |-> DataErrno, out |-> <<>>]
    ELSE IF buff.size < buff.clen THEN [errno |-> BufErrno, out |-> <<>>]
    ELSE [errno |-> 0, out |-> buff.out]

(***************************************************************************)
(* What the fixture holds, for stating the claims: the object numbers, the *)
(* cache key <<fileIndex, offset>> of each, the base of each delta, and    *)
(* the content of each object that resolves.                               *)
(***************************************************************************)
ObjKey(n) ==
    CASE n = 1 -> <<0, 12>>  [] n = 2 -> <<0, 40>>  [] n = 3 -> <<0, 70>>
      [] n = 4 -> <<0, 100>> [] n = 5 -> <<0, 130>> [] n = 6 -> <<0, 160>>
      [] n = 7 -> <<1, 12>>  [] n = 8 -> <<1, 40>>  [] n = 9 -> <<1, 70>>
      [] n = 10 -> <<1, 110>> [] n = 11 -> <<1, 150>> [] n = 12 -> <<1, 400>>

ObjNums == 1..12

ObjKeys == {ObjKey(n) : n \in ObjNums}

\* the key of the base of the delta at key k (NoKey: k is no delta, or its
\* base is not in the index)
NoKey == <<>>

BaseKey(k) ==
    CASE k = <<0, 40>> -> <<0, 12>>
      [] k = <<0, 70>> -> <<0, 40>>
      [] k = <<1, 40>> -> <<1, 12>>
      [] k = <<1, 70>> -> <<0, 12>>
      [] k = <<1, 150>> -> <<0, 130>>
      [] k = <<1, 400>> -> <<1, 12>>
      [] OTHER -> NoKey

DeltaKeys == {<<0, 40>>, <<0, 70>>, <<1, 40>>, <<1, 70>>, <<1, 110>>, <<1, 150>>, <<1, 400>>}

\* the reference decoding of the objects that resolve
Expected ==
    (<<0, 12>> :> <<10, 11, 12>>)
    @@ (<<0, 40>> :> <<10, 11, 12, 13>>)
    @@ (<<0, 70>> :> <<10, 11, 12, 13, 14>>)
    @@ (<<0, 160>> :> [i \in 1..20 |-> 30 + i])
    @@ (<<1, 12>> :> <<20, 21>>)
    @@ (<<1, 70>> :> <<10, 11, 12, 15>>)
    @@ (<<1, 400>> :> <<20, 21, 22>>)

HashOf(n) == toHex(HashBytes(n))

\* the hashes asked for: those of the twelve objects and one in no index
AbsentHash == HashOf(77)
ReqHashes == {HashOf(n) : n \in ObjNums} \cup {AbsentHash}

(***************************************************************************)
(* Object header decoder: new PackedObject(idx, buff), lines 45-59.        *)
(***************************************************************************)
\* buff[i] of a JavaScript buffer: undefined past the end, which the
\* bitwise operators read as 0
ByteAt(buff, i) == IF i < Len(buff) THEN buff[i + 1] ELSE 0

\* the while loop of the constructor, c being the byte read last
RECURSIVE HeaderLoop(_, _, _, _, _)
HeaderLoop(buff, c, size, offset, x) ==
    IF c < 128 THEN [size |-> size, offset |-> offset]
    ELSE LET c2 == ByteAt(buff, offset)
         IN  HeaderLoop(buff, c2, size + (c2 % 128) * x, offset + 1, x * 128)

\* a constructor whose multiplier starts at 128
PackedObjectShift7(buff) ==
    LET c == ByteAt(buff, 0)
        r == HeaderLoop(buff, c, c % 16, 1, 128)
    IN  [type |-> (c \div 16) % 8, size |-> r.size, offset |-> r.offset]

PackedObject(buff) ==
    LET c == ByteAt(buff, 0)
        r == HeaderLoop(buff, c, c % 16, 1, 16)
    IN  [type |-> (c \div 16) % 8, size |-> r.size, offset |-> r.offset]

(***************************************************************************)
(* The collaborators of ./delta, from their contracts.                     *)
(***************************************************************************)
RECURSIVE BaseOffsetLoop(_, _, _, _)
BaseOffsetLoop(buff, c, value, offset) ==
    IF c < 128 THEN <<value, offset>>
    ELSE LET c2 == ByteAt(buff, offset)
         IN  BaseOffsetLoop(buff, c2, (value + 1) * 128 + (c2 % 128), offset + 1)

\* readBaseOffset(head, offset): <<distance, offset after the varint>>
readBaseOffset(buff, offset) ==
    LET c == ByteAt(buff, offset)
    IN  BaseOffsetLoop(buff, c, c % 128, offset + 1)

\* a size varint of a delta: 7 bits per byte, least significant first
RECURSIVE DeltaSize(_, _, _, _)
DeltaSize(delta, pos, value, mult) ==
    LET c == ByteAt(delta, pos)
    IN  IF pos >= Len(delta) THEN [value |-> value, pos |-> pos]
        ELSE IF c < 128 THEN [value |-> value + c * mult, pos |-> pos + 1]
        ELSE DeltaSize(delta, pos + 1, value + (c % 128) * mult, mult * 128)

\* the instructions of a delta from pos on: copy (bit 7 set; here with at
\* most one offset byte, bit 0, and one size byte, bit 4) or insert
RECURSIVE DeltaApply(_, _, _, _)
DeltaApply(src, delta, pos, acc) ==
    IF pos >= Len(delta) THEN [ok |-> TRUE, out |-> acc]
    ELSE LET cmd == ByteAt(delta, pos)
             hasOff == cmd % 2 = 1
             hasLen == (cmd \div 16) % 2 = 1
             off == IF hasOff THEN ByteAt(delta, pos + 1) ELSE 0
             lenPos == IF hasOff THEN pos + 2 ELSE pos + 1
             len == IF hasLen THEN ByteAt(delta, lenPos) ELSE 0
             next == IF hasLen THEN lenPos + 1 ELSE lenPos
         IN  IF cmd >= 128
             THEN IF off + len > Len(src) THEN [ok |-> FALSE, out |-> acc]
                  ELSE DeltaApply(src, delta, next, acc \o Slice(src, off, off + len))
             ELSE IF cmd = 0 \/ pos + 1 + cmd > Len(delta)
                  THEN [ok |-> FALSE, out |-> acc]
                  ELSE DeltaApply(src, delta, pos + 1 + cmd,
                                  acc \o Slice(delta, pos + 1, pos + 1 + cmd))

\* patchDelta(src, delta): ok = FALSE when it throws (the base is not of
\* the size the delta was made for, or the result not of the size it names)
patchDelta(src, delta) ==
    LET b == DeltaSize(delta, 0, 0, 1)
        r == DeltaSize(delta, b.pos, 0, 1)
        a == DeltaApply(src, delta, r.pos, <<>>)
    IN  IF b.value # Len(src) THEN [ok |-> FALSE, out |-> <<>>]
        ELSE IF ~a.ok \/ Len(a.out) # r.value THEN [ok |-> FALSE, out |-> <<>>]
        ELSE a

(***************************************************************************)
(* State.  A Packs reference is <<gitDir, k>>: the k-th Packs created for  *)
(* gitDir; a promise of _initialize is named the same way.                 *)
(***************************************************************************)
VARIABLES
    packsCache,   \* the LRU cache: entries [key: gitDir, value: Packs reference]
    processings,  \* gitDir -> the in-flight promise, NoRef = no entry
    builds,       \* promise -> the state of that _initialize call, with the
                  \* callers that awaited it (joined) and still do (waiting)
    heap,         \* Packs reference -> the Packs instance
    ninit,        \* initialize / initializeSync calls issued
    received,     \* gitDir -> the Packs references its callers were given
    failed,       \* gitDir -> calls that ended with an error
    fsReads,      \* path -> number of readdir / readFile requests made for it
    recency,      \* cached gitDirs by last insertion or hit, latest first
    calls,        \* the unpackGitObject / unpackGitObjectSync calls
    openFds,      \* the open pack-file descriptors
    nfaults,      \* I/O failures injected so far
    setCount,     \* <<Packs reference, cache key>> -> number of cache writes
    probe         \* a header decoder call: its buffer and, once done, its result

regVars == <<packsCache, processings, builds, heap, ninit,
             received, failed, fsReads, recency>>
resVars == <<calls, openFds, nfaults, setCount, probe>>
vars == <<packsCache, processings, builds, heap, ninit,
          received, failed, fsReads, recency,
          calls, openFds, nfaults, setCount, probe>>

\* no header decoder call
NoProbe == [in |-> <<>>, done |-> FALSE, out |-> [type |-> 0, size |-> 0, offset |-> 0]]

Bump(f, k) == [x \in (DOMAIN f) \cup {k} |-> IF x \in DOMAIN f
                                              THEN (IF x = k THEN f[x] + 1 ELSE f[x])
                                              ELSE 1]

Count(f, k) == IF k \in DOMAIN f THEN f[k] ELSE 0

\* the next unused name for gitDir d among the names of f
Fresh(f, d) == <<d, Cardinality({r \in DOMAIN f : r[1] = d}) + 1>>

IdxPath(packDir, name) == packDir \o <<name, "idx">>

\* the cached gitDirs by last use: d used now, the rest as before, those no
\* longer cached dropped
Touch(rec, d, cache) ==
    SelectSeq(<<d>> \o SelectSeq(rec, LAMBDA x : x # d), LAMBDA x : x \in LruKeys(cache))

InitRegistry ==
    /\ packsCache = <<>>
    /\ processings = [d \in Dirs |-> NoRef]
    /\ builds = EmptyMap
    /\ heap = EmptyMap
    /\ ninit = 0
    /\ received = [d \in Dirs |-> {}]
    /\ failed = [d \in Dirs |-> 0]
    /\ fsReads = EmptyMap
    /\ recency = <<>>
    /\ calls = <<>>
    /\ openFds = {}
    /\ nfaults = 0
    /\ setCount = EmptyMap
    /\ probe = NoProbe

\* initialize that never finds an in-flight promise
InFlightNone(d) == NoRef

\* processings[gitDir], line 116: the in-flight promise, NoRef when none
InFlight(d) == processings[d]

(***************************************************************************)
(* Packs.initialize(gitDir), lines 113-124, up to its first suspension:    *)
(* a cache hit returns; an in-flight promise is returned (the caller then  *)
(* awaits it); otherwise _initialize starts (it requests the directory     *)
(* listing), the promise is registered and the caller awaits it.           *)
(***************************************************************************)
Initialize(d) ==
    /\ ninit < MaxInitCalls
    /\ ninit' = ninit + 1
    /\ LET g == packsCacheGet(packsCache, d)
           p == Fresh(builds, d)
       IN  IF g.hit
           THEN /\ packsCache' = g.cache
                /\ received' = [received EXCEPT ![d] = @ \cup {g.value}]
                /\ recency' = Touch(recency, d, g.cache)
                /\ UNCHANGED <<processings, builds, fsReads>>
           ELSE IF InFlight(d) # NoRef
           THEN /\ builds' = [builds EXCEPT ![InFlight(d)].joined = @ + 1,
                                            ![InFlight(d)].waiting = @ + 1]
                /\ UNCHANGED <<packsCache, processings, received, recency, fsReads>>
           ELSE /\ builds' = MapSet(builds, p,
                                    [pc |-> "readdir", fileNames |-> <<>>,
                                     i |-> 0, map |-> EmptyMap, packs |-> NoRef,
                                     joined |-> 1, waiting |-> 1])
                /\ fsReads' = Bump(fsReads, PackDirOf(d))
                /\ processings' = [processings EXCEPT ![d] = p]
                /\ UNCHANGED <<packsCache, received, recency>>
    /\ UNCHANGED <<heap, failed>>
    /\ UNCHANGED resVars

\* the promise p is fulfilled with a new Packs; the callback of
\* initialize's promise.then runs: lines 119-123
Fulfil(p, packs) ==
    LET d   == p[1]
        ref == Fresh(heap, d)
        c   == packsCacheSet(packsCache, d, ref)
    IN  /\ heap' = MapSet(heap, ref, packs)
        /\ builds' = [builds EXCEPT ![p].pc = "fulfilled", ![p].packs = ref]
        /\ processings' = [processings EXCEPT ![d] = NoRef]
        /\ packsCache' = c
        /\ recency' = Touch(recency, d, c)

\* _initialize, lines 126-138: the directory listing arrives
BuildReaddir(p) ==
    /\ p \in DOMAIN builds
    /\ builds[p].pc = "readdir"
    /\ LET d  == p[1]
           r  == FsReaddir(PackDirOf(d))
           fileNames == IdxBaseNames(r.names)
       IN  IF ~r.ok \/ fileNames = <<>>
           THEN /\ Fulfil(p, NewEmptyPacks(d))
                /\ UNCHANGED fsReads
           ELSE /\ builds' = [builds EXCEPT ![p].pc = "readfile",
                                            ![p].fileNames = fileNames]
                /\ fsReads' = Bump(fsReads, IdxPath(PackDirOf(d), fileNames[1]))
                /\ UNCHANGED <<packsCache, processings, heap, recency>>
    /\ UNCHANGED <<ninit, received, failed>>
    /\ UNCHANGED resVars

\* _initialize, lines 139-145: the read of index file i completes or fails
BuildReadFile(p, ioOk) ==
    /\ p \in DOMAIN builds
    /\ builds[p].pc = "readfile"
    /\ LET d  == p[1]
           i  == builds[p].i
           fileNames == builds[p].fileNames
           packDir == PackDirOf(d)
           r  == setupPackedIndexMap(FsIdxFile(packDir, fileNames[i + 1]), i, builds[p].map)
       IN  IF ~ioOk \/ ~r.ok
           THEN /\ builds' = [builds EXCEPT ![p].pc = "rejected"]
                /\ UNCHANGED <<packsCache, processings, heap, recency, fsReads>>
           ELSE IF i + 1 < Len(fileNames)
           THEN /\ builds' = [builds EXCEPT ![p].i = i + 1, ![p].map = r.map]
                /\ fsReads' = Bump(fsReads, IdxPath(packDir, fileNames[i + 2]))
                /\ UNCHANGED <<packsCache, processings, heap, recency>>
           ELSE /\ Fulfil(p, NewPacks(packDir, fileNames, r.map))
                /\ UNCHANGED fsReads
    /\ UNCHANGED <<ninit, received, failed>>
    /\ UNCHANGED resVars

\* a caller of initialize awaiting promise p resumes with its outcome
AwaitReturn(p) ==
    /\ p \in DOMAIN builds
    /\ builds[p].waiting > 0
    /\ builds[p].pc \in {"fulfilled", "rejected"}
    /\ builds' = [builds EXCEPT ![p].waiting = @ - 1]
    /\ LET d == p[1]
       IN  IF builds[p].pc = "fulfilled"
           THEN /\ received' = [received EXCEPT ![d] = @ \cup {builds[p].packs}]
                /\ UNCHANGED failed
           ELSE /\ failed' = [failed EXCEPT ![d] = @ + 1]
                /\ UNCHANGED received
    /\ UNCHANGED <<packsCache, processings, heap, ninit, fsReads, recency>>
    /\ UNCHANGED resVars

\* the loop of initializeSync, lines 169-172, from file i on; the read of
\* file number failAt (counted from 1) fails
RECURSIVE ReadAllSync(_, _, _, _, _, _)
ReadAllSync(packDir, fileNames, i, map, reads, failAt) ==
    IF i >= Len(fileNames) THEN [ok |-> TRUE, map |-> map, reads |-> reads]
    ELSE LET path == IdxPath(packDir, fileNames[i + 1])
             r    == setupPackedIndexMap(FsIdxFile(packDir, fileNames[i + 1]), i, map)
         IN  IF failAt = i + 1 \/ ~r.ok
             THEN [ok |-> FALSE, map |-> map, reads |-> Bump(reads, path)]
             ELSE ReadAllSync(packDir, fileNames, i + 1, r.map, Bump(reads, path), failAt)

(***************************************************************************)
(* Packs.initializeSync(gitDir), lines 147-176: one blocking call.         *)
(***************************************************************************)
InitializeSync(d, failAt) ==
    /\ ninit < MaxInitCalls
    /\ ninit' = ninit + 1
    /\ LET g == packsCacheGet(packsCache, d)
           packDir == PackDirOf(d)
           r == FsReaddir(packDir)
           fileNames == IdxBaseNames(r.names)
           ref == Fresh(heap, d)
           c == packsCacheSet(packsCache, d, ref)
           all == ReadAllSync(packDir, fileNames, 0, EmptyMap,
                              Bump(fsReads, packDir), failAt)
       IN  IF g.hit
           THEN /\ failAt = 0
                /\ packsCache' = g.cache
                /\ received' = [received EXCEPT ![d] = @ \cup {g.value}]
                /\ recency' = Touch(recency, d, g.cache)
                /\ UNCHANGED <<heap, failed, fsReads>>
           ELSE IF ~r.ok \/ fileNames = <<>>
           THEN /\ failAt = 0
                /\ heap' = MapSet(heap, ref, NewEmptyPacks(d))
                /\ packsCache' = c
                /\ received' = [received EXCEPT ![d] = @ \cup {ref}]
                /\ recency' = Touch(recency, d, c)
                /\ fsReads' = Bump(fsReads, packDir)
                /\ UNCHANGED failed
           ELSE /\ failAt <= Len(fileNames)
                /\ fsReads' = all.reads
                /\ IF all.ok
                   THEN /\ heap' = MapSet(heap, ref, NewPacks(packDir, fileNames, all.map))
                        /\ packsCache' = c
                        /\ received' = [received EXCEPT ![d] = @ \cup {ref}]
                        /\ recency' = Touch(recency, d, c)
                        /\ UNCHANGED failed
                   ELSE /\ failed' = [failed EXCEPT ![d] = @ + 1]
                        /\ UNCHANGED <<heap, packsCache, received, recency>>
    /\ UNCHANGED <<processings, builds>>
    /\ UNCHANGED resVars

\* the promises that may exist
Promises == Dirs \X (1..MaxInitCalls)

(***************************************************************************)
(* The Store Registry under suspending initialize calls alone, for at most *)
(* LruMax directories.                                                     *)
(***************************************************************************)
DedupDirs == {"d1", "d3", "d4"}

DedupNext ==
    \/ \E d \in DedupDirs : Initialize(d)
    \/ \E p \in Promises : BuildReaddir(p)
    \/ \E p \in Promises, ioOk \in BOOLEAN : BuildReadFile(p, ioOk)
    \/ \E p \in Promises : AwaitReturn(p)

SpecDedup == InitRegistry /\ [][DedupNext]_vars

(***************************************************************************)
(* The Store Registry under both entry points, for more directories than   *)
(* the cache holds.                                                        *)
(***************************************************************************)
RegDirs == {"d2", "d3", "d4", "d5", "d6"}

\* the directories suspending calls are issued for
AsyncDirs == {"d2", "d3"}

RegNext ==
    \/ \E d \in AsyncDirs : Initialize(d)
    \/ \E p \in Promises : BuildReaddir(p)
    \/ \E p \in Promises, ioOk \in BOOLEAN : BuildReadFile(p, ioOk)
    \/ \E p \in Promises : AwaitReturn(p)
    \/ \E d \in RegDirs, failAt \in 0..MaxIdxFiles : InitializeSync(d, failAt)

SpecInit == InitRegistry /\ [][RegNext]_vars

(***************************************************************************)
(* The Pack Store.  A call of unpackGitObject / unpackGitObjectSync works  *)
(* on a machine record: the decoded-object cache of its Packs, the open    *)
(* descriptors, the cache-write counts, its own log of events (trace), and *)
(* for a suspending call the stack of its suspended functions.             *)
(***************************************************************************)
Ev(op, key, n) == [op |-> op, key |-> key, n |-> n]

KeyOf(idx) == <<idx.fileIndex, idx.offset>>

NoIdx == [offset |-> 0, fileIndex |-> 0]
NoPo == [type |-> 0, size |-> 0, offset |-> 0]
NoOut == [ok |-> TRUE, val |-> <<>>, err |-> "", at |-> NoKey]

Log(m, op, key, n) == [m EXCEPT !.trace = Append(@, Ev(op, key, n))]

\* _getPackedIndexFromCache(hash), lines 178-184: found = FALSE when it throws
getPackedIndexFromCache(packs, hash) ==
    IF hash \in DOMAIN packs.packedIndexMap
    THEN [found |-> TRUE, idx |-> packs.packedIndexMap[hash]]
    ELSE [found |-> FALSE, idx |-> NoIdx]

\* a lookup that never finds an entry
CacheAlwaysMiss(cache, idx) == [hit |-> FALSE, dst |-> <<>>]

\* _getPackedObjectBufferFromCach(idx), lines 186-188
getPackedObjectBufferFromCach(cache, idx) ==
    IF KeyOf(idx) \in DOMAIN cache
    THEN [hit |-> TRUE, dst |-> cache[KeyOf(idx)]]
    ELSE [hit |-> FALSE, dst |-> <<>>]

\* _setPackedObjectBuffrToCache(idx, buff), lines 190-192, on the machine
setPackedObjectBuffrToCache(m, idx, buff) ==
    [m EXCEPT !.cache = MapSet(@, KeyOf(idx), buff),
              !.sets = Bump(@, <<m.store, KeyOf(idx)>>),
              !.trace = Append(@, Ev("set", KeyOf(idx), 0))]

\* _getPackFilePath(idx), lines 194-196
getPackFilePath(packs, idx) ==
    packs.packDir \o <<packs.packFileNames[idx.fileIndex + 1], "pack">>

\* the descriptor fs.open returns: the lowest number not in use
FreshFd(fds) == CHOOSE n \in 1..(Cardinality(fds) + 1) : \A f \in fds : f.fd # n

PathOfFd(fds, fd) == (CHOOSE f \in fds : f.fd = fd).path

OpenFd(m, path, idx) ==
    LET fd == FreshFd(m.fds)
    IN  [m EXCEPT !.fds = @ \cup {[fd |-> fd, path |-> path, by |-> m.call]},
                  !.trace = Append(@, Ev("open", KeyOf(idx), fd))]

\* a finally block that does not close
CloseFdNot(m, fd, idx) == m

\* fs.close(fd) in the finally blocks, lines 210 and 227
CloseFd(m, fd, idx) ==
    [m EXCEPT !.fds = {f \in @ : f.fd # fd},
              !.trace = Append(@, Ev("close", KeyOf(idx), fd))]

\* a first buffer of the declared size and the padding, not doubled
FirstSizeUndoubled(po) == po.size + InitialPad

\* the first size of the buffer of inf / infSync: po.size * 2 + 32
FirstSize(po) == po.size * 2 + InitialPad

Ok(val, m) == [ok |-> TRUE, val |-> val, err |-> "", at |-> NoKey, m |-> m]

\* a throw that is swallowed: the caller is given no bytes instead
FailSwallowed(err, at, m) == Ok(<<>>, m)

Fail(err, at, m) == [ok |-> FALSE, val |-> <<>>, err |-> err, at |-> at, m |-> m]

(***************************************************************************)
(* The blocking path.  The I/O request number failAt of the call (opens    *)
(* and reads, counted from 1) fails; 0: none does.                         *)
(***************************************************************************)
RECURSIVE infSync(_, _, _, _, _, _)
RECURSIVE unpackGitObjectSync(_, _, _)
RECURSIVE unpackGitObjectSyncInner(_, _, _, _)
RECURSIVE unpackDeltaObjectSync(_, _, _, _, _, _)

\* lines 328-335: z is what zlib.inflateSync(buff) gave
Inflated(z, fd, idx, po, size, m, failAt) ==
    IF z.errno = 0 THEN Ok(z.out, m)
    ELSE IF z.errno # BufErrno THEN Fail("Z_DATA_ERROR", KeyOf(idx), m)
    ELSE infSync(fd, idx, po, size + RetryGrow, m, failAt)

\* infSync(fd, idx, po, size), lines 325-336
infSync(fd, idx, po, size, m, failAt) ==
    IF m.io + 1 = failAt
    THEN Fail("EIO", KeyOf(idx), [m EXCEPT !.io = @ + 1, !.faulted = TRUE])
    ELSE Inflated(Inflate(FsReadPayload(PathOfFd(m.fds, fd), idx.offset + po.offset, size)),
                  fd, idx, po, size,
                  Log(Log([m EXCEPT !.io = @ + 1], "read", KeyOf(idx), size),
                      "inflate", KeyOf(idx), size),
                  failAt)

\* lines 224-229: the finally block closes fd whatever the outcome r of the
\* try block, which is then the outcome of the call
Finally(r, fd, idx) == [r EXCEPT !.m = CloseFd(r.m, fd, idx)]

\* lines 221-229: the pack file of idx is opened, read and closed
Opened(idx, path, fd, m, failAt) ==
    IF m.io + 1 = failAt \/ ~FsExists(path)
    THEN Fail("EOPEN", KeyOf(idx),
              [m EXCEPT !.io = @ + 1, !.faulted = (m.io + 1 = failAt)])
    ELSE Finally(unpackGitObjectSyncInner(
                     fd, idx, OpenFd([m EXCEPT !.io = @ + 1], path, idx), failAt),
                 fd, idx)

\* lines 216-220: the index entry look of the hash, and the cache
Looked(look, m, failAt) ==
    IF ~look.found THEN Fail("NotFound", NoKey, m)
    ELSE IF KeyOf(look.idx) \in DOMAIN m.cache
    THEN Ok(getPackedObjectBufferFromCach(m.cache, look.idx).dst,
            Log(m, "hit", KeyOf(look.idx), 0))
    ELSE Opened(look.idx, getPackFilePath(heap[m.store], look.idx), FreshFd(m.fds),
                m, failAt)

\* unpackGitObjectSync(hash), lines 215-230
unpackGitObjectSync(hash, m, failAt) ==
    Looked(getPackedIndexFromCache(heap[m.store], hash), m, failAt)

\* a blocking path that returns dst without caching it
CachedNot(r, idx) == r

\* lines 281-285: dst, the outcome r of the switch, is cached and returned
Cached(r, idx) ==
    IF ~r.ok THEN r ELSE Ok(r.val, setPackedObjectBuffrToCache(r.m, idx, r.val))

\* a switch that inflates the payload of every type that is no delta
SwitchAnyType(fd, idx, po, head, m, failAt) ==
    IF po.type \in {OFS_DELTA, REF_DELTA}
    THEN Cached(unpackDeltaObjectSync(fd, idx, po, head,
                                      Log(m, "head", KeyOf(idx), po.type), failAt), idx)
    ELSE Cached(infSync(fd, idx, po, FirstSize(po),
                        Log(m, "head", KeyOf(idx), po.type), failAt), idx)

\* lines 267-285: the switch on the type of the header po
Switch(fd, idx, po, head, m, failAt) ==
    IF po.type \in {COMMIT, TAG}
    THEN Cached(infSync(fd, idx, po, FirstSize(po),
                        Log(m, "head", KeyOf(idx), po.type), failAt), idx)
    ELSE IF po.type \in {OFS_DELTA, REF_DELTA}
    THEN Cached(unpackDeltaObjectSync(fd, idx, po, head,
                                      Log(m, "head", KeyOf(idx), po.type), failAt), idx)
    ELSE Fail("InvalidType", KeyOf(idx), Log(m, "head", KeyOf(idx), po.type))

\* line 266: new PackedObject(idx, head)
Headed(fd, idx, head, m, failAt) == Switch(fd, idx, PackedObject(head), head, m, failAt)

\* _unpackGitObjectSync(fd, idx), lines 260-286
unpackGitObjectSyncInner(fd, idx, m, failAt) ==
    IF KeyOf(idx) \in DOMAIN m.cache
    THEN Ok(getPackedObjectBufferFromCach(m.cache, idx).dst, Log(m, "hit", KeyOf(idx), 0))
    ELSE IF m.io + 1 = failAt
    THEN Fail("EIO", KeyOf(idx), [m EXCEPT !.io = @ + 1, !.faulted = TRUE])
    ELSE Headed(fd, idx, FsReadHead(PathOfFd(m.fds, fd), idx.offset),
                [m EXCEPT !.io = @ + 1], failAt)

\* line 317: patchDelta(src, d), d the outcome of infSync
Patch(r, m, key) ==
    IF ~r.ok THEN Fail("PatchError", key, Log(m, "patch", key, 0))
    ELSE Ok(r.out, Log(m, "patch", key, 0))

Patched(src, d, key) ==
    IF ~d.ok THEN d ELSE Patch(patchDelta(src.val, d.val), d.m, key)

\* line 317 with src the outcome of the resolution of the base
PatchedOnto(src, fd, idx, po, failAt) ==
    IF ~src.ok THEN src
    ELSE Patched(src, infSync(fd, idx, po, FirstSize(po), src.m, failAt), KeyOf(idx))

\* a base looked for at the distance bo[1] after the delta
OfsDeltaForward(fd, idx, po, bo, m, failAt) ==
    PatchedOnto(unpackGitObjectSyncInner(
                    fd, [offset |-> idx.offset + bo[1], fileIndex |-> idx.fileIndex],
                    m, failAt),
                fd, idx, [po EXCEPT !.offset = bo[2]], failAt)

\* lines 306-312: the base is at the distance bo[1] before the delta
OfsDelta(fd, idx, po, bo, m, failAt) ==
    PatchedOnto(unpackGitObjectSyncInner(
                    fd, [offset |-> idx.offset - bo[1], fileIndex |-> idx.fileIndex],
                    m, failAt),
                fd, idx, [po EXCEPT !.offset = bo[2]], failAt)

\* the base of a delta resolved after the delta d was inflated
BaseUnder(src, d, key) ==
    IF ~src.ok THEN src ELSE Patched(src, [d EXCEPT !.m = src.m], key)

BaseAfter(d, fd, idx, po, head, bo, failAt) ==
    IF ~d.ok THEN d
    ELSE IF po.type = OFS_DELTA
    THEN BaseUnder(unpackGitObjectSyncInner(
                       fd, [offset |-> idx.offset - bo[1], fileIndex |-> idx.fileIndex],
                       d.m, failAt),
                   d, KeyOf(idx))
    ELSE BaseUnder(unpackGitObjectSync(readHash(head, po.offset), d.m, failAt),
                   d, KeyOf(idx))

\* an _unpackDeltaObjectSync that reads the base of a REF_DELTA through the
\* handle of the delta
unpackDeltaObjectSyncSameHandle(fd, idx, po, head, m, failAt) ==
    IF po.type = OFS_DELTA
    THEN OfsDelta(fd, idx, po, readBaseOffset(head, po.offset), m, failAt)
    ELSE PatchedOnto(unpackGitObjectSyncInner(
                         fd, getPackedIndexFromCache(heap[m.store],
                                                     readHash(head, po.offset)).idx,
                         m, failAt),
                     fd, idx, [po EXCEPT !.offset = @ + HashLen], failAt)

\* an _unpackDeltaObjectSync that inflates the delta before it resolves the
\* base
unpackDeltaObjectSyncPayloadFirst(fd, idx, po, head, m, failAt) ==
    IF po.type = OFS_DELTA
    THEN BaseAfter(infSync(fd, idx,
                           [po EXCEPT !.offset = readBaseOffset(head, po.offset)[2]],
                           po.size * 2 + InitialPad, m, failAt),
                   fd, idx, po, head, readBaseOffset(head, po.offset), failAt)
    ELSE BaseAfter(infSync(fd, idx, [po EXCEPT !.offset = @ + HashLen],
                           po.size * 2 + InitialPad, m, failAt),
                   fd, idx, po, head, <<0, 0>>, failAt)

\* _unpackDeltaObjectSync(fd, idx, po, head), lines 304-318
unpackDeltaObjectSync(fd, idx, po, head, m, failAt) ==
    IF po.type = OFS_DELTA
    THEN OfsDelta(fd, idx, po, readBaseOffset(head, po.offset), m, failAt)
    ELSE PatchedOnto(unpackGitObjectSync(readHash(head, po.offset), m, failAt),
                     fd, idx, [po EXCEPT !.offset = @ + HashLen], failAt)

(***************************************************************************)
(* The suspending path.  The stack holds the suspended functions of one    *)
(* call, the innermost last:                                               *)
(*   U  unpackGitObject      awaiting open, its body, or close (finally)   *)
(*   G  _unpackGitObject     awaiting the header read, or its callee       *)
(*   D  _unpackDeltaObject   awaiting the base (hasSrc = FALSE) or inf     *)
(*   I  inf                  awaiting read, or inflate                     *)
(* The operators below run a call from one I/O completion to its next I/O  *)
(* request.                                                                *)
(***************************************************************************)
Frame(fn, pc, fd, idx, po) ==
    [fn |-> fn, pc |-> pc, fd |-> fd, idx |-> idx, po |-> po, size |-> 0,
     hasSrc |-> FALSE, src |-> <<>>, buff |-> NoStream, out |-> NoOut]

Top(m) == m.stack[Len(m.stack)]

Pop(m) == [m EXCEPT !.stack = SubSeq(@, 1, Len(@) - 1)]

Push(m, f) == [m EXCEPT !.stack = Append(@, f)]

SetTop(m, f) == [m EXCEPT !.stack[Len(m.stack)] = f]

\* inf(fd, idx, po) is called: it requests its read (line 340)
CallInf(m, fd, idx, po) ==
    Push(m, [Frame("I", "read", fd, idx, po) EXCEPT !.size = FirstSize(po)])

RECURSIVE Return(_, _)
RECURSIVE Throw(_, _, _)

\* the awaited function returns val to the function suspended on top
Return(m, val) ==
    IF m.stack = <<>> THEN [m EXCEPT !.status = "ok", !.val = val]
    ELSE LET f == Top(m)
             r == patchDelta(f.src, val)
         IN  CASE f.fn = "G" ->
                    \* lines 253-257
                    Return(setPackedObjectBuffrToCache(Pop(m), f.idx, val), val)
               [] f.fn = "D" /\ ~f.hasSrc ->
                    \* lines 293/298: src is there; line 301 calls inf
                    CallInf(SetTop(m, [f EXCEPT !.hasSrc = TRUE, !.src = val]),
                            f.fd, f.idx, f.po)
               [] f.fn = "D" /\ f.hasSrc ->
                    \* line 301: patchDelta(src, <inflated delta>)
                    IF r.ok THEN Return(Log(Pop(m), "patch", KeyOf(f.idx), 0), r.out)
                    ELSE Throw(Log(Pop(m), "patch", KeyOf(f.idx), 0),
                               "PatchError", KeyOf(f.idx))
               [] OTHER ->
                    \* U, lines 206-210: the finally block requests the close
                    SetTop(m, [f EXCEPT !.pc = "close",
                                        !.out = [NoOut EXCEPT !.val = val]])

\* the awaited function throws err to the function suspended on top
Throw(m, err, at) ==
    IF m.stack = <<>> THEN [m EXCEPT !.status = "err", !.err = err, !.at = at]
    ELSE LET f == Top(m)
         IN  IF f.fn = "U"
             THEN \* lines 207-210: rethrown once the finally block has closed
                  SetTop(m, [f EXCEPT !.pc = "close",
                                      !.out = [ok |-> FALSE, val |-> <<>>,
                                               err |-> err, at |-> at]])
             ELSE Throw(Pop(m), err, at)

\* _unpackGitObject(fd, idx) is called: lines 232-238
CallInner(m, fd, idx) ==
    LET got == getPackedObjectBufferFromCach(m.cache, idx)
    IN  IF got.hit THEN Return(Log(m, "hit", KeyOf(idx), 0), got.dst)
        ELSE Push(m, Frame("G", "head", fd, idx, NoPo))

\* an unpackGitObject that opens the first pack file before it looks the
\* hash up
CallUnpackOpenFirst(m, hash) ==
    LET look == getPackedIndexFromCache(heap[m.store], hash)
    IN  Push(m, Frame("U", "open", 0, look.idx, NoPo))

\* unpackGitObject(hash) is called: lines 198-204
CallUnpack(m, hash) ==
    LET look == getPackedIndexFromCache(heap[m.store], hash)
        got  == getPackedObjectBufferFromCach(m.cache, look.idx)
    IN  IF ~look.found THEN Throw(m, "NotFound", NoKey)
        ELSE IF got.hit THEN Return(Log(m, "hit", KeyOf(look.idx), 0), got.dst)
        ELSE Push(m, Frame("U", "open", 0, look.idx, NoPo))

\* the open of line 204 completes
AfterOpen(m, ioOk) ==
    LET f    == Top(m)
        path == getPackFilePath(heap[m.store], f.idx)
        fd   == FreshFd(m.fds)
    IN  IF ~ioOk \/ ~FsExists(path)
        THEN Throw(Pop(m), "EOPEN", KeyOf(f.idx))
        ELSE CallInner(SetTop(OpenFd(m, path, f.idx), [f EXCEPT !.pc = "body", !.fd = fd]),
                       fd, f.idx)

\* the header read of line 238 completes: lines 239-255 and 288-300
AfterHead(m, ioOk) ==
    LET f    == Top(m)
        key  == KeyOf(f.idx)
        head == FsReadHead(PathOfFd(m.fds, f.fd), f.idx.offset)
        po   == PackedObject(head)
        m1   == SetTop(Log(m, "head", key, po.type), [f EXCEPT !.pc = "inner"])
        bo   == readBaseOffset(head, po.offset)
    IN  IF ~ioOk THEN Throw(Pop(m), "EIO", key)
        ELSE IF po.type \in {COMMIT, TAG} THEN CallInf(m1, f.fd, f.idx, po)
        ELSE IF po.type = OFS_DELTA
        THEN CallInner(Push(m1, Frame("D", "base", f.fd, f.idx, [po EXCEPT !.offset = bo[2]])),
                       f.fd,
                       [offset |-> f.idx.offset - bo[1], fileIndex |-> f.idx.fileIndex])
        ELSE IF po.type = REF_DELTA
        THEN CallUnpack(Push(m1, Frame("D", "base", f.fd, f.idx,
                                       [po EXCEPT !.offset = @ + HashLen])),
                        readHash(head, po.offset))
        ELSE Throw(Pop(m1), "InvalidType", key)

\* the read of line 340 completes
AfterRead(m, ioOk) ==
    LET f    == Top(m)
        buff == FsReadPayload(PathOfFd(m.fds, f.fd), f.idx.offset + f.po.offset, f.size)
    IN  IF ~ioOk THEN Throw(Pop(m), "EIO", KeyOf(f.idx))
        ELSE SetTop(Log(m, "read", KeyOf(f.idx), f.size),
                    [f EXCEPT !.pc = "inflate", !.buff = buff])

\* the inflate of line 342 completes: lines 343-348
AfterInflate(m) ==
    LET f  == Top(m)
        z  == Inflate(f.buff)
        m1 == Log(m, "inflate", KeyOf(f.idx), f.size)
    IN  IF z.errno = 0 THEN Return(Pop(m1), z.out)
        ELSE IF z.errno # BufErrno THEN Throw(Pop(m1), "Z_DATA_ERROR", KeyOf(f.idx))
        ELSE SetTop(m1, [f EXCEPT !.pc = "read", !.size = @ + RetryGrow,
                                  !.buff = NoStream])

\* the close of line 210 completes: the call goes on with the outcome of
\* the try block
AfterClose(m) ==
    LET f  == Top(m)
        m1 == Pop(CloseFd(m, f.fd, f.idx))
    IN  IF f.out.ok THEN Return(m1, f.out.val) ELSE Throw(m1, f.out.err, f.out.at)

(***************************************************************************)
(* Calls of the Pack Store as actions.                                     *)
(***************************************************************************)
\* the machine of a new call number c on the Packs s
NewMachine(s, c) ==
    [store |-> s, call |-> c, cache |-> heap[s].packedObjectCache, fds |-> openFds,
     sets |-> setCount, trace |-> <<>>, io |-> 0, faulted |-> FALSE,
     stack |-> <<>>, status |-> "run", val |-> <<>>, err |-> "", at |-> NoKey]

\* the machine of the running call c
Machine(c) ==
    [store |-> calls[c].store, call |-> c,
     cache |-> heap[calls[c].store].packedObjectCache, fds |-> openFds,
     sets |-> setCount, trace |-> calls[c].trace, io |-> 0, faulted |-> FALSE,
     stack |-> calls[c].stack, status |-> "run", val |-> <<>>, err |-> "", at |-> NoKey]

\* the earlier calls on s for hash that have returned bytes
Prior(s, hash) ==
    {c \in 1..Len(calls) : /\ calls[c].store = s
                           /\ calls[c].hash = hash
                           /\ calls[c].status = "ok"}

CallRecord(s, hash, mode, m) ==
    [store |-> s, hash |-> hash, mode |-> mode, prior |-> Prior(s, hash),
     status |-> m.status, val |-> m.val, err |-> m.err, at |-> m.at,
     trace |-> m.trace, stack |-> m.stack]

\* what a step of a call leaves behind
Commit(m) ==
    /\ heap' = [heap EXCEPT ![m.store].packedObjectCache = m.cache]
    /\ openFds' = m.fds
    /\ setCount' = m.sets

Step(c, m) ==
    /\ calls' = [calls EXCEPT ![c].status = m.status, ![c].val = m.val,
                              ![c].err = m.err, ![c].at = m.at,
                              ![c].trace = m.trace, ![c].stack = m.stack]
    /\ Commit(m)

regOnly == <<packsCache, processings, builds, ninit, received, failed, fsReads, recency,
             probe>>

Pending(c, fn, pc) ==
    /\ c \in 1..Len(calls)
    /\ calls[c].status = "run"
    /\ calls[c].stack # <<>>
    /\ calls[c].stack[Len(calls[c].stack)].fn = fn
    /\ calls[c].stack[Len(calls[c].stack)].pc = pc

Fault(ioOk) ==
    /\ ~ioOk => nfaults < MaxFaults
    /\ nfaults' = IF ioOk THEN nfaults ELSE nfaults + 1

\* a caller invokes packs.unpackGitObject(hash): the call runs to its first
\* suspension
UnpackGitObject(s, hash) ==
    /\ Len(calls) < MaxCalls
    /\ s \in DOMAIN heap
    /\ LET m == CallUnpack(NewMachine(s, Len(calls) + 1), hash)
       IN  /\ calls' = Append(calls, CallRecord(s, hash, "async", m))
           /\ Commit(m)
    /\ UNCHANGED nfaults
    /\ UNCHANGED regOnly

OpenDone(c, ioOk) ==
    /\ Pending(c, "U", "open")
    /\ Fault(ioOk)
    /\ Step(c, AfterOpen(Machine(c), ioOk))
    /\ UNCHANGED regOnly

HeadDone(c, ioOk) ==
    /\ Pending(c, "G", "head")
    /\ Fault(ioOk)
    /\ Step(c, AfterHead(Machine(c), ioOk))
    /\ UNCHANGED regOnly

ReadDone(c, ioOk) ==
    /\ Pending(c, "I", "read")
    /\ Fault(ioOk)
    /\ Step(c, AfterRead(Machine(c), ioOk))
    /\ UNCHANGED regOnly

InflateDone(c) ==
    /\ Pending(c, "I", "inflate")
    /\ Step(c, AfterInflate(Machine(c)))
    /\ UNCHANGED nfaults
    /\ UNCHANGED regOnly

CloseDone(c) ==
    /\ Pending(c, "U", "close")
    /\ Step(c, AfterClose(Machine(c)))
    /\ UNCHANGED nfaults
    /\ UNCHANGED regOnly

\* the machine as the call leaves it, with the outcome r of the call
Outcome(r) ==
    [r.m EXCEPT !.status = IF r.ok THEN "ok" ELSE "err",
                !.val = r.val, !.err = r.err, !.at = r.at]

\* the blocking call has run, leaving the machine m
Returned(s, hash, failAt, m) ==
    /\ (failAt # 0) = m.faulted
    /\ m.faulted => nfaults < MaxFaults
    /\ nfaults' = IF m.faulted THEN nfaults + 1 ELSE nfaults
    /\ calls' = Append(calls, CallRecord(s, hash, "sync", m))
    /\ Commit(m)

\* a caller invokes packs.unpackGitObjectSync(hash): the whole call
UnpackGitObjectSync(s, hash, failAt) ==
    /\ Len(calls) < MaxCalls
    /\ s \in DOMAIN heap
    /\ Returned(s, hash, failAt,
                Outcome(unpackGitObjectSync(hash, NewMachine(s, Len(calls) + 1), failAt)))
    /\ UNCHANGED regOnly

(***************************************************************************)
(* The Pack Store of d1, as initializeSync("d1") leaves it in a fresh      *)
(* process, under calls of both kinds.                                     *)
(***************************************************************************)
D1 == <<"d1", 1>>

Init ==
    LET packDir == PackDirOf("d1")
        fileNames == IdxBaseNames(FsReaddir(packDir).names)
        all == ReadAllSync(packDir, fileNames, 0, EmptyMap, Bump(EmptyMap, packDir), 0)
    IN  /\ packsCache = packsCacheSet(<<>>, "d1", D1)
        /\ processings = [d \in Dirs |-> NoRef]
        /\ builds = EmptyMap
        /\ heap = (D1 :> NewPacks(packDir, fileNames, all.map))
        /\ ninit = 1
        /\ received = [d \in Dirs |-> IF d = "d1" THEN {D1} ELSE {}]
        /\ failed = [d \in Dirs |-> 0]
        /\ fsReads = all.reads
        /\ recency = <<"d1">>
        /\ calls = <<>>
        /\ openFds = {}
        /\ nfaults = 0
        /\ setCount = EmptyMap
        /\ probe = NoProbe

Next ==
    \/ \E h \in ReqHashes : UnpackGitObject(D1, h)
    \/ \E c \in 1..MaxCalls, ioOk \in BOOLEAN : OpenDone(c, ioOk)
    \/ \E c \in 1..MaxCalls, ioOk \in BOOLEAN : HeadDone(c, ioOk)
    \/ \E c \in 1..MaxCalls, ioOk \in BOOLEAN : ReadDone(c, ioOk)
    \/ \E c \in 1..MaxCalls : InflateDone(c)
    \/ \E c \in 1..MaxCalls : CloseDone(c)
    \/ \E h \in ReqHashes, failAt \in 0..MaxSyncIo : UnpackGitObjectSync(D1, h, failAt)

Spec == Init /\ [][Next]_vars

(***************************************************************************)
(* Directories without packs (missing, unreadable, listing no index file)  *)
(* under both entry points, and the calls on the Packs they give.          *)
(***************************************************************************)
\* the hashes asked of them: one that other repositories hold, one that
\* none does
EmptyReq == {HashOf(1), AbsentHash}

EmptyNext ==
    \/ \E d \in EmptyDirs : ninit < MaxEmptyInits /\ Initialize(d)
    \/ \E p \in Promises : BuildReaddir(p)
    \/ \E p \in Promises : AwaitReturn(p)
    \/ \E d \in EmptyDirs : ninit < MaxEmptyInits /\ InitializeSync(d, 0)
    \/ \E s \in Promises, h \in EmptyReq : UnpackGitObject(s, h)
    \/ \E s \in Promises, h \in EmptyReq : UnpackGitObjectSync(s, h, 0)

SpecEmpty == InitRegistry /\ [][EmptyNext]_vars

(***************************************************************************)
(* The Pack Store of d2, as initializeSync("d2") leaves it in a fresh      *)
(* process: the objects a well-formed pack does not hold.                  *)
(***************************************************************************)
D2 == <<"d2", 1>>

InitEdge ==
    LET packDir == PackDirOf("d2")
        fileNames == IdxBaseNames(FsReaddir(packDir).names)
        all == ReadAllSync(packDir, fileNames, 0, EmptyMap, Bump(EmptyMap, packDir), 0)
    IN  /\ packsCache = packsCacheSet(<<>>, "d2", D2)
        /\ processings = [d \in Dirs |-> NoRef]
        /\ builds = EmptyMap
        /\ heap = (D2 :> NewPacks(packDir, fileNames, all.map))
        /\ ninit = 1
        /\ received = [d \in Dirs |-> IF d = "d2" THEN {D2} ELSE {}]
        /\ failed = [d \in Dirs |-> 0]
        /\ fsReads = all.reads
        /\ recency = <<"d2">>
        /\ calls = <<>>
        /\ openFds = {}
        /\ nfaults = 0
        /\ setCount = EmptyMap
        /\ probe = NoProbe

\* the hashes asked of it: K, the four objects of no supported type, V, Z,
\* S and the corrupt commit
EdgeReq == {HashOf(n) : n \in {1, 21, 22, 23, 24, 28, 29, 30, 31}}

EdgeNext ==
    \/ \E h \in EdgeReq : UnpackGitObject(D2, h)
    \/ \E c \in 1..MaxCalls, ioOk \in BOOLEAN : OpenDone(c, ioOk)
    \/ \E c \in 1..MaxCalls, ioOk \in BOOLEAN : HeadDone(c, ioOk)
    \/ \E c \in 1..MaxCalls, ioOk \in BOOLEAN : ReadDone(c, ioOk)
    \/ \E c \in 1..MaxCalls : InflateDone(c)
    \/ \E c \in 1..MaxCalls : CloseDone(c)
    \/ \E h \in EdgeReq, failAt \in 0..MaxSyncIo : UnpackGitObjectSync(D2, h, failAt)

SpecEdge == InitEdge /\ [][EdgeNext]_vars

(***************************************************************************)
(* The same store under suspending calls for the deltas whose base leads   *)
(* back to themselves.  The model follows a call down to MaxDepth          *)
(* suspended functions.                                                    *)
(***************************************************************************)
MaxDepth == 8

\* the delta that is its own base, and the two that name each other
CycleReq == {HashOf(n) : n \in {25, 26, 27}}

Depth(c) == IF c \in 1..Len(calls) THEN Len(calls[c].stack) ELSE 0

CycleNext ==
    \/ \E h \in CycleReq : UnpackGitObject(D2, h)
    \/ \E c \in 1..MaxCalls, ioOk \in BOOLEAN : Depth(c) < MaxDepth /\ OpenDone(c, ioOk)
    \/ \E c \in 1..MaxCalls, ioOk \in BOOLEAN : Depth(c) < MaxDepth /\ HeadDone(c, ioOk)
    \/ \E c \in 1..MaxCalls : CloseDone(c)

SpecCycle == InitEdge /\ [][CycleNext]_vars

(***************************************************************************)
(* The Store Registry and the Pack Stores of d7 and d8 under both entry    *)
(* points, without I/O faults, and the blocking calls on the Packs they    *)
(* give.  Two directories: the cache evicts nothing.                       *)
(***************************************************************************)
MaxStoreInits == 4

StoreDirs == {"d7", "d8"}

\* the hashes asked of them: the one both index files of d7 list, a delta
\* of pack-e, the large one of d8, and one in no index
StoreReq == {HashOf(1), HashOf(2), HashOf(42), AbsentHash}

StoreNext ==
    \/ \E d \in StoreDirs : ninit < MaxStoreInits /\ Initialize(d)
    \/ \E p \in Promises : BuildReaddir(p)
    \/ \E p \in Promises : BuildReadFile(p, TRUE)
    \/ \E p \in Promises : AwaitReturn(p)
    \/ \E d \in StoreDirs : ninit < MaxStoreInits /\ InitializeSync(d, 0)
    \/ \E s \in Promises, h \in StoreReq : UnpackGitObjectSync(s, h, 0)

SpecStores == InitRegistry /\ [][StoreNext]_vars

(***************************************************************************)
(* The header decoder alone: new PackedObject(idx, buff) on the buffers of *)
(* at most MaxHeaderBytes bytes over HeaderBytes.                          *)
(***************************************************************************)
MaxHeaderBytes == 3

\* the bytes tried: all bits, no bit, and mixes with and without bit 7
HeaderBytes == {0, 15, 23, 100, 127, 128, 145, 229, 255}

HeaderInputs == UNION {[1..n -> HeaderBytes] : n \in 1..MaxHeaderBytes}

InitHeader ==
    /\ packsCache = <<>>
    /\ processings = [d \in Dirs |-> NoRef]
    /\ builds = EmptyMap
    /\ heap = EmptyMap
    /\ ninit = 0
    /\ received = [d \in Dirs |-> {}]
    /\ failed = [d \in Dirs |-> 0]
    /\ fsReads = EmptyMap
    /\ recency = <<>>
    /\ calls = <<>>
    /\ openFds = {}
    /\ nfaults = 0
    /\ setCount = EmptyMap
    /\ probe \in {[NoProbe EXCEPT !.in = b] : b \in HeaderInputs}

\* line 266 / 238: the constructor runs on the buffer
Decode ==
    /\ ~probe.done
    /\ probe' = [probe EXCEPT !.done = TRUE, !.out = PackedObject(probe.in)]
    /\ UNCHANGED <<regVars, calls, openFds, nfaults, setCount>>

SpecHeader == InitHeader /\ [][Decode]_vars

(***************************************************************************)
(* Claims about the Store Registry.                                        *)
(***************************************************************************)
BuildsOf(d) == {p \in DOMAIN builds : p[1] = d}

\* C1: suspending initialize calls for one directory that is not cached
\* start exactly one build (one directory listing, one read of each index
\* file), whatever their number and interleaving, and every caller that is
\* given a Packs is given the one instance that build produced.
C1_OneBuildShared ==
    \A d \in DedupDirs :
        /\ Cardinality(BuildsOf(d)) <= 1
        /\ (processings[d] # NoRef \/ received[d] # {} \/ failed[d] > 0)
              => Cardinality(BuildsOf(d)) = 1
        /\ Count(fsReads, PackDirOf(d)) = Cardinality(BuildsOf(d))
        /\ \A x \in DOMAIN fsReads : x[1] = d => fsReads[x] = 1
        /\ \A p \in BuildsOf(d) :
              /\ received[d] \subseteq {builds[p].packs} \ {NoRef}
              /\ builds[p].pc = "fulfilled" =>
                    /\ builds[p].packs \in DOMAIN heap
                    /\ \A f \in 1..Len(builds[p].fileNames) :
                          Count(fsReads, IdxPath(PackDirOf(d), builds[p].fileNames[f])) = 1

\* three callers of initialize("d1") shared one build of two index files
C1_Witness ==
    \E p \in DOMAIN builds :
        /\ p[1] = "d1"
        /\ builds[p].pc = "fulfilled"
        /\ builds[p].joined >= 3
        /\ builds[p].waiting = 0
        /\ received["d1"] = {builds[p].packs}
        /\ heap[builds[p].packs].hasPackFiles

\* C2: once the build started by initialize(dir) has completed, with a
\* Packs or with an error, processings holds no entry for it.
C2_EntryRemovedOnCompletion ==
    \A p \in DOMAIN builds :
        builds[p].pc \in {"fulfilled", "rejected"} => processings[p[1]] # p

\* C6: packsCache never holds more than 4 Packs, and an entry leaves it only
\* when a new directory is inserted into the full cache; the entry that
\* leaves is then the one least recently inserted or hit.
C6_LruEviction ==
    /\ [](Len(packsCache) <= LruMax /\ Cardinality(LruKeys(packsCache)) = Len(packsCache))
    /\ [][LET old == LruKeys(packsCache)
              new == LruKeys(packsCache')
          IN  /\ Cardinality(old \ new) <= 1
              /\ \A k \in old \ new :
                    /\ Len(packsCache) = LruMax
                    /\ new \ old # {}
                    /\ k = recency[Len(recency)]]_vars

\* a fifth directory was inserted into the full cache and a directory that
\* had been served was evicted
C6_Witness ==
    /\ Len(packsCache) = LruMax
    /\ \E d \in RegDirs : received[d] # {} /\ d \notin LruKeys(packsCache)

(***************************************************************************)
(* Claims about the Pack Store.                                            *)
(***************************************************************************)
Done(c) == calls[c].status # "run"

CallIds == 1..Len(calls)

\* the key the hash of call c maps to (NoKey: the hash is in no index)
ReqKey(c) ==
    LET look == getPackedIndexFromCache(heap[calls[c].store], calls[c].hash)
    IN  IF look.found THEN KeyOf(look.idx) ELSE NoKey

\* the positions of the trace of call c that hold an event of ops on key
At(c, ops, key) ==
    {i \in 1..Len(calls[c].trace) :
        calls[c].trace[i].op \in ops /\ calls[c].trace[i].key = key}

Events(c, ops) ==
    {i \in 1..Len(calls[c].trace) : calls[c].trace[i].op \in ops}

IoOps == {"open", "head", "read", "inflate"}

\* the fixture resolves to its reference decoding
ResolvesToReference ==
    \A c \in CallIds :
        calls[c].status = "ok" =>
            /\ ReqKey(c) \in DOMAIN Expected
            /\ calls[c].val = Expected[ReqKey(c)]

\* C3: a resolve that starts after a resolve of the same hash on the same
\* Packs has returned bytes returns the same bytes at once, without opening
\* or reading a pack file.
C3_SecondResolveFromCache ==
    \A c \in CallIds : \A p \in calls[c].prior :
        /\ calls[c].status = "ok"
        /\ calls[c].val = calls[p].val
        /\ calls[c].stack = <<>>
        /\ Events(c, IoOps) = {}
        /\ \A f \in openFds : f.by # c

\* a delta was resolved from the pack file by a suspending call, and a
\* blocking call for the same hash came after it
C3_Witness ==
    \E c \in CallIds : \E p \in calls[c].prior :
        /\ calls[p].mode = "async" /\ calls[c].mode = "sync"
        /\ Events(p, {"patch"}) # {}
        /\ Events(p, {"read"}) # {}
        /\ calls[c].val # <<>>

\* C4: a resolve of a hash that is no key of packedIndexMap fails with the
\* not-found error, requests no open and no read, and leaves the decoded
\* cache as it was.
C4_AbsentHashNotFound ==
    /\ [](\A c \in CallIds :
            ReqKey(c) = NoKey =>
                /\ calls[c].status = "err" /\ calls[c].err = "NotFound"
                /\ calls[c].stack = <<>>
                /\ calls[c].trace = <<>>
                /\ \A f \in openFds : f.by # c)
    /\ [][(Len(calls') > Len(calls)
           /\ calls'[Len(calls')].hash \notin DOMAIN heap[D1].packedIndexMap)
          => /\ heap' = heap
             /\ openFds' = openFds
             /\ setCount' = setCount]_vars

\* the absent hash was asked for of a Packs whose decoded cache holds an
\* object
C4_Witness ==
    \E c \in CallIds :
        /\ calls[c].hash = AbsentHash
        /\ calls[c].err = "NotFound"
        /\ DOMAIN heap[D1].packedObjectCache # {}

\* C5: when a resolve has returned or failed, every descriptor it opened,
\* those of nested REF_DELTA resolutions included, has been closed.
C5_HandlesClosed ==
    \A c \in CallIds :
        /\ Cardinality({f \in openFds : f.by = c})
              = Cardinality(Events(c, {"open"})) - Cardinality(Events(c, {"close"}))
        /\ Done(c) => {f \in openFds : f.by = c} = {}

\* a suspending resolve of a REF_DELTA failed in the inflate of its base,
\* with two descriptors opened, and a blocking one failed in its patch
C5_Witness ==
    /\ \E c \in CallIds :
        /\ calls[c].mode = "async" /\ calls[c].status = "err"
        /\ calls[c].err = "Z_DATA_ERROR"
        /\ Cardinality(Events(c, {"open"})) = 2
    /\ \E c \in CallIds :
        /\ calls[c].mode = "sync" /\ calls[c].status = "err"
        /\ calls[c].err = "PatchError"

\* C8: an entry of packedObjectCache, once written, stays and is written
\* only once, however the suspending calls interleave.
C8_WrittenOnce ==
    \A x \in DOMAIN setCount :
        /\ setCount[x] = 1
        /\ x[2] \in DOMAIN heap[x[1]].packedObjectCache

\* the keys of the chain of k down to the key stop, both included (down to
\* the end of the chain if stop is not in it)
RECURSIVE ChainTo(_, _)
ChainTo(k, stop) ==
    IF k = NoKey THEN {}
    ELSE IF k = stop THEN {k}
    ELSE {k} \cup ChainTo(BaseKey(k), stop)

Before(c, i, ops, key) == {j \in At(c, ops, key) : j < i}

\* C9: in one resolve, the payload of a delta is read and inflated only
\* after its base has been resolved (its entry written by the call, or found
\* in the cache), the patch is applied after both, and the entry of the
\* delta is written after the patch and after the entries of the objects
\* below it; so a cached delta has its whole chain cached.
C9_DepthFirst ==
    /\ \A c \in CallIds : \A k \in DeltaKeys :
        /\ \A i \in At(c, {"read", "inflate"}, k) :
              Before(c, i, {"set", "hit"}, BaseKey(k)) # {}
        /\ \A i \in At(c, {"patch"}, k) :
              /\ Before(c, i, {"inflate"}, k) # {}
              /\ Before(c, i, {"set", "hit"}, BaseKey(k)) # {}
        /\ \A i \in At(c, {"set"}, k) :
              /\ Before(c, i, {"patch"}, k) # {}
              /\ \A j \in At(c, {"set"}, BaseKey(k)) : j < i
    /\ \A k \in DeltaKeys \cap DOMAIN heap[D1].packedObjectCache :
          ChainTo(k, NoKey) \subseteq DOMAIN heap[D1].packedObjectCache

\* an OFS_DELTA of an OFS_DELTA was resolved from the pack file, the three
\* entries of its chain written by the one call, and a REF_DELTA was
\* resolved
C9_Witness ==
    /\ \E c \in CallIds :
        /\ ReqKey(c) = <<0, 70>> /\ calls[c].status = "ok"
        /\ Cardinality(Events(c, {"set"})) = 3
    /\ \E c \in CallIds :
        /\ ReqKey(c) = <<1, 70>> /\ calls[c].status = "ok"
        /\ Events(c, {"patch"}) # {}

\* the objects of the fixture that do not resolve, and the error each one
\* raises when no I/O request fails
ExpectedError ==
    (<<0, 100>> :> [err |-> "InvalidType", at |-> <<0, 100>>])
    @@ (<<0, 130>> :> [err |-> "Z_DATA_ERROR", at |-> <<0, 130>>])
    @@ (<<1, 40>> :> [err |-> "PatchError", at |-> <<1, 40>>])
    @@ (<<1, 110>> :> [err |-> "NotFound", at |-> NoKey])
    @@ (<<1, 150>> :> [err |-> "Z_DATA_ERROR", at |-> <<0, 130>>])

IoErrors == {"EOPEN", "EIO"}

\* the last event of call c that is no close
LastStep(c) ==
    LET t == calls[c].trace
        i == CHOOSE i \in Events(c, {"open", "head", "read", "inflate", "patch", "set", "hit"}) :
                 \A j \in Events(c, {"open", "head", "read", "inflate", "patch", "set", "hit"}) : j <= i
    IN  t[i]

\* C10: a resolve of a delta in which a step fails (the resolution of the
\* base, the inflate of the delta, the patch) fails with the error that step
\* raised and returns no bytes; it writes no entry for the object that
\* failed nor for the deltas above it, only for the bases resolved before;
\* an object that cannot be resolved is never cached.
C10_FailurePropagates ==
    /\ \A c \in CallIds :
        (Done(c) /\ ReqKey(c) \in DeltaKeys) =>
            /\ ReqKey(c) \in DOMAIN ExpectedError => calls[c].status = "err"
            /\ calls[c].status = "err" =>
                /\ calls[c].val = <<>>
                /\ \/ /\ calls[c].err \in IoErrors
                      /\ calls[c].at \in ChainTo(ReqKey(c), NoKey)
                   \/ /\ ReqKey(c) \in DOMAIN ExpectedError
                      /\ calls[c].err = ExpectedError[ReqKey(c)].err
                      /\ calls[c].at = ExpectedError[ReqKey(c)].at
                /\ calls[c].err = "Z_DATA_ERROR" =>
                      LastStep(c) = Ev("inflate", calls[c].at, LastStep(c).n)
                /\ calls[c].err = "PatchError" =>
                      LastStep(c) = Ev("patch", calls[c].at, 0)
                /\ \A i \in Events(c, {"set"}) :
                      calls[c].trace[i].key \in
                          ChainTo(ReqKey(c), NoKey) \ ChainTo(ReqKey(c), calls[c].at)
    /\ DOMAIN ExpectedError \cap DOMAIN heap[D1].packedObjectCache = {}

\* the resolve of an OFS_DELTA of an OFS_DELTA failed in the read of the
\* payload of the middle delta: the base under it is cached, the two deltas
\* are not; and the resolve of a REF_DELTA failed in the inflate of its base
C10_Witness ==
    /\ \E c \in CallIds :
        /\ ReqKey(c) = <<0, 70>> /\ calls[c].status = "err"
        /\ calls[c].err = "EIO" /\ calls[c].at = <<0, 40>>
        /\ At(c, {"set"}, <<0, 12>>) # {}
        /\ <<0, 12>> \in DOMAIN heap[D1].packedObjectCache
        /\ <<0, 40>> \notin DOMAIN heap[D1].packedObjectCache
    /\ \E c \in CallIds :
        /\ ReqKey(c) = <<1, 150>> /\ calls[c].status = "err"
        /\ calls[c].err = "Z_DATA_ERROR" /\ calls[c].at = <<0, 130>>

\* C7: initialize and initializeSync of a directory whose pack directory is
\* missing, unreadable or lists no index file do not fail: they give, and
\* cache, a Packs with an empty packedIndexMap and hasPackFiles = FALSE,
\* having read no file; every resolve on it fails with the not-found error
\* and requests no I/O.
C7_EmptyStore ==
    /\ \A d \in EmptyDirs :
        /\ failed[d] = 0
        /\ \A p \in BuildsOf(d) : builds[p].pc \in {"readdir", "fulfilled"}
        /\ \A s \in received[d] :
              /\ s \in DOMAIN heap
              /\ heap[s].packedIndexMap = EmptyMap
              /\ ~heap[s].hasPackFiles
              /\ \E i \in 1..Len(packsCache) :
                    /\ packsCache[i].key = d
                    /\ heap[packsCache[i].value].packedIndexMap = EmptyMap
                    /\ ~heap[packsCache[i].value].hasPackFiles
    /\ \A x \in DOMAIN fsReads : \E d \in EmptyDirs : x = PackDirOf(d)
    /\ \A c \in CallIds :
          calls[c].store[1] \in EmptyDirs =>
              /\ calls[c].status = "err"
              /\ calls[c].err = "NotFound"
              /\ calls[c].trace = <<>>
    /\ openFds = {}

\* a missing directory was initialized by the suspending call and one with
\* no index file by the blocking call, and a hash was asked of both Packs
C7_Witness ==
    /\ \E p \in BuildsOf("d3") :
          builds[p].pc = "fulfilled" /\ received["d3"] = {builds[p].packs}
    /\ received["d4"] # {} /\ BuildsOf("d4") = {}
    /\ \E c \in CallIds : calls[c].store[1] = "d3" /\ calls[c].mode = "sync"
    /\ \E c \in CallIds : calls[c].store[1] = "d4" /\ calls[c].mode = "async"

(***************************************************************************)
(* Claims about the objects a well-formed pack does not hold.              *)
(***************************************************************************)
SupportedTypes == {COMMIT, TAG, OFS_DELTA, REF_DELTA}

\* the header events of call c that name a type the switch does not take
InvalidHeads(c) ==
    {i \in Events(c, {"head"}) : calls[c].trace[i].n \notin SupportedTypes}

\* C11: a resolve that reads a header whose type code is none of 1, 4, 6, 7
\* (Tree 2 and Blob 3 among them) fails with the invalid-object-type error:
\* after that header it reads and inflates nothing and writes no cache
\* entry, it only closes the handles it holds, and all of them.
C11_InvalidTypeFails ==
    \A c \in CallIds : \A i \in InvalidHeads(c) :
        /\ \A j \in (i + 1)..Len(calls[c].trace) : calls[c].trace[j].op = "close"
        /\ calls[c].trace[i].key \notin DOMAIN heap[calls[c].store].packedObjectCache
        /\ Done(c) =>
            /\ calls[c].status = "err" /\ calls[c].err = "InvalidType"
            /\ calls[c].at = calls[c].trace[i].key
            /\ calls[c].val = <<>>
            /\ Cardinality(Events(c, {"close"})) = Cardinality(Events(c, {"open"}))
            /\ {f \in openFds : f.by = c} = {}
        /\ ~Done(c) =>
            /\ Top(calls[c]).fn = "U" /\ Top(calls[c]).pc = "close"
            /\ Top(calls[c]).out.err = "InvalidType"

\* a suspending resolve of the blob and a blocking resolve of the object of
\* type code 5 have failed, each after one open, one header and one close
C11_Witness ==
    /\ \E c \in CallIds :
        /\ calls[c].mode = "async" /\ Done(c)
        /\ \E i \in InvalidHeads(c) : calls[c].trace[i].n = BLOB
        /\ [i \in 1..Len(calls[c].trace) |-> calls[c].trace[i].op]
              = <<"open", "head", "close">>
    /\ \E c \in CallIds :
        /\ calls[c].mode = "sync" /\ Done(c)
        /\ \E i \in InvalidHeads(c) : calls[c].trace[i].n = 5
        /\ [i \in 1..Len(calls[c].trace) |-> calls[c].trace[i].op]
              = <<"open", "head", "close">>

\* the objects call c is in the middle of resolving, outermost first: the
\* idx of its suspended _unpackGitObject calls
Resolving(c) ==
    LET st == calls[c].stack
        RECURSIVE Keys(_)
        Keys(i) == IF i > Len(st) THEN <<>>
                   ELSE (IF st[i].fn = "G" THEN <<KeyOf(st[i].idx)>> ELSE <<>>) \o Keys(i + 1)
    IN  Keys(1)

\* C12: the resolution of a delta whose base leads back to itself (an
\* OFS_DELTA of distance 0, REF_DELTAs that name each other) is bounded: a
\* call never starts to resolve an object that it is already in the middle
\* of resolving.
C12_RecursionBounded ==
    \A c \in CallIds :
        \A i, j \in 1..Len(Resolving(c)) : i # j => Resolving(c)[i] # Resolving(c)[j]

(***************************************************************************)
(* Claims about the index files.                                           *)
(***************************************************************************)
\* what each index file of the directories of StoreDirs lists, read alone,
\* in the order of the directory listing
Listing ==
    [d \in StoreDirs |->
        LET names == IdxBaseNames(FsReaddir(PackDirOf(d)).names)
        IN  [i \in 1..Len(names) |->
                setupPackedIndexMap(FsIdxFile(PackDirOf(d), names[i]), i - 1, EmptyMap)]]

\* the first index file of the directory of the Packs s that lists hash
FirstFile(s, hash) ==
    CHOOSE i \in DOMAIN Listing[s[1]] :
        /\ hash \in DOMAIN Listing[s[1]][i].map
        /\ \A j \in 1..(i - 1) : hash \notin DOMAIN Listing[s[1]][j].map

\* C13: the packedIndexMap is write-once while a store is built: no key is
\* set twice, so that a hash two index files list keeps the location the
\* first of them gives; every entry of a built store is the one of the
\* first index file that lists its hash.
C13_IndexWriteOnce ==
    \A s \in DOMAIN heap :
        \A hash \in DOMAIN heap[s].packedIndexMap :
            heap[s].packedIndexMap[hash] = Listing[s[1]][FirstFile(s, hash)].map[hash]

\* C18: a version 2 index file with an entry whose 32-bit offset has the
\* high bit set is parsed without error, as one without is: the offset of
\* that entry is the 8-byte entry of the 64-bit table (LargeOffset), the
\* offset of an entry without the high bit is its 32-bit entry.
C18_LargeOffsetRead ==
    /\ failed["d8"] = 0
    /\ \A s \in DOMAIN heap :
          s[1] = "d8" =>
              /\ HashOf(41) \in DOMAIN heap[s].packedIndexMap
              /\ heap[s].packedIndexMap[HashOf(41)] = [offset |-> 12, fileIndex |-> 0]
              /\ HashOf(42) \in DOMAIN heap[s].packedIndexMap
              /\ heap[s].packedIndexMap[HashOf(42)] = [offset |-> LargeOffset, fileIndex |-> 0]

(***************************************************************************)
(* Claims about the decompressor.                                          *)
(***************************************************************************)
\* C14: the payload of an object is read into a buffer of twice the size
\* its header declares plus 32 bytes, then of 128 bytes more per retry, each
\* time from the start of the payload; a retry follows only an inflate that
\* the end of the buffer cut short (errno -5); any other inflate error ends
\* the call with that error at once; the first attempt whose buffer holds
\* the whole stream succeeds and is the last.
C14_RetryGrowth ==
    \A c \in CallIds : \A p \in Events(c, {"read"}) :
        LET t   == calls[c].trace
            k   == t[p].key
            R   == At(c, {"read"}, k)
            obj == PackC[k[2]]
        IN  /\ (\A q \in R : q >= p) => t[p].n = PackedObject(obj.head).size * 2 + InitialPad
            /\ (\E q \in R : q < p) =>
                /\ p > 2
                /\ t[p - 2] = Ev("read", k, t[p].n - RetryGrow)
                /\ t[p - 1] = Ev("inflate", k, t[p].n - RetryGrow)
                /\ t[p].n - RetryGrow < obj.clen /\ ~obj.bad
            /\ p < Len(t) =>
                /\ t[p + 1] = Ev("inflate", k, t[p].n)
                /\ (obj.bad \/ t[p].n >= obj.clen) => \A q \in R : q <= p
                /\ obj.bad =>
                    /\ \A j \in (p + 2)..Len(t) : t[j].op = "close"
                    /\ Done(c) => calls[c].err = "Z_DATA_ERROR" /\ calls[c].at = k
                /\ (~obj.bad /\ t[p].n >= obj.clen /\ p + 1 < Len(t)) =>
                    /\ t[p + 2].op \in {"set", "patch"} /\ t[p + 2].key = k
                    /\ (Done(c) /\ ReqKey(c) = k /\ t[p + 2].op = "set") =>
                          calls[c].status = "ok" /\ calls[c].val = obj.out

\* a suspending resolve of S returned its bytes after reads of 34, 162 and
\* 290 bytes, and a blocking resolve of the corrupt commit failed after one
\* read
C14_Witness ==
    /\ \E c \in CallIds :
        /\ calls[c].mode = "async" /\ calls[c].status = "ok"
        /\ calls[c].hash = HashOf(30) /\ calls[c].val = <<50>>
        /\ [i \in 1..Len(calls[c].trace) |-> calls[c].trace[i].n]
              = <<1, COMMIT, 34, 34, 162, 162, 290, 290, 0, 1>>
    /\ \E c \in CallIds :
        /\ calls[c].mode = "sync" /\ calls[c].status = "err"
        /\ calls[c].hash = HashOf(31) /\ calls[c].err = "Z_DATA_ERROR"
        /\ Cardinality(Events(c, {"read"})) = 1

(***************************************************************************)
(* Claims about the deltas.                                                *)
(***************************************************************************)
\* the header events of call c that name a REF_DELTA
RefHeads(c) == {i \in Events(c, {"head"}) : calls[c].trace[i].n = REF_DELTA}

\* the trace of call c around the header i of a REF_DELTA
RefBaseByHash(c, i) ==
    LET t == calls[c].trace
        k == t[i].key
        b == BaseKey(k)
        bidx == [offset |-> b[2], fileIndex |-> b[1]]
    IN  /\ i > 1 /\ t[i - 1].op = "open" /\ t[i - 1].key = k
        /\ b = NoKey =>
            /\ \A j \in (i + 1)..Len(t) : t[j].op = "close"
            /\ Done(c) => calls[c].err = "NotFound"
        /\ (b # NoKey /\ i < Len(t)) =>
            \/ /\ t[i + 1] = Ev("hit", b, 0)
               /\ At(c, IoOps, b) = {}
            \/ /\ t[i + 1].op = "open" /\ t[i + 1].key = b
               /\ t[i + 1].n # t[i - 1].n
               /\ (\A j \in (i + 2)..Len(t) : t[j] # Ev("close", b, t[i + 1].n)) =>
                     \E f \in openFds :
                         /\ f.fd = t[i + 1].n /\ f.by = c
                         /\ f.path = getPackFilePath(heap[calls[c].store], bidx)
            \/ /\ t[i + 1] = Ev("close", k, t[i - 1].n)
               /\ Done(c) => calls[c].err = "EOPEN" /\ calls[c].at = b
        /\ \A p \in At(c, {"read"}, k) :
            /\ Cardinality({j \in Events(c, {"open"}) : i < j /\ j < p})
                  = Cardinality({j \in Events(c, {"close"}) : i < j /\ j < p})
            /\ \A j \in 1..p : t[j] # Ev("close", k, t[i - 1].n)

\* C15: the base of a REF_DELTA is resolved by its hash as a top-level
\* resolve is: a base that is not cached is read through a second handle,
\* opened on the pack file of the base and closed before the payload of the
\* delta is read through the handle of the delta, which stays open; a base
\* hash in no index fails the resolve with the not-found error; for a base
\* that is cached when the header of the delta has been read no file is
\* opened.
C15_RefDeltaBaseByHash ==
    [][\A c \in 1..Len(calls') :
          \A i \in RefHeads(c)' :
              /\ RefBaseByHash(c, i)'
              /\ (/\ c \in 1..Len(calls) => i > Len(calls[c].trace)
                  /\ BaseKey(calls'[c].trace[i].key)
                        \in DOMAIN heap[calls'[c].store].packedObjectCache)
                 => /\ i < Len(calls'[c].trace)
                    /\ calls'[c].trace[i + 1]
                          = Ev("hit", BaseKey(calls'[c].trace[i].key), 0)]_vars

\* two resolves of E have returned its bytes: one read the base A through a
\* second handle that it closed before it read the payload of E, the other
\* found A cached and opened the pack file of E only
C15_Witness ==
    /\ \E c \in CallIds :
        /\ calls[c].hash = HashOf(9) /\ calls[c].status = "ok"
        /\ [i \in 1..Len(calls[c].trace) |-> calls[c].trace[i].op]
              = <<"open", "head", "open", "head", "read", "inflate", "set", "close",
                  "read", "inflate", "patch", "set", "close">>
        /\ calls[c].trace[1].n # calls[c].trace[3].n
    /\ \E c \in CallIds :
        /\ calls[c].hash = HashOf(9) /\ calls[c].status = "ok"
        /\ [i \in 1..Len(calls[c].trace) |-> calls[c].trace[i].op]
              = <<"open", "head", "hit", "read", "inflate", "patch", "set", "close">>

\* the base of each OFS_DELTA of pack-c that is asked for: U, which no
\* index lists, under V, and V under Z
EdgeBaseKey == (<<0, 230>> :> <<0, 200>>) @@ (<<0, 260>> :> <<0, 230>>)

\* the header events of call c that name an OFS_DELTA
OfsHeads(c) == {i \in Events(c, {"head"}) : calls[c].trace[i].n = OFS_DELTA}

\* C16: the base of an OFS_DELTA at <<fileIndex, offset>> is the object at
\* <<fileIndex, offset - distance>>, read through the handle of the delta:
\* the call opens no further file; a base that is cached when the header of
\* the delta has been read is not read again; after a resolve that returned
\* bytes every object of the chain is cached under its own key, also the
\* one at an offset that no index entry names.
C16_OfsDeltaSameHandle ==
    [][\A c \in 1..Len(calls') :
          LET t == calls'[c].trace
              cache == heap'[calls'[c].store].packedObjectCache
          IN  /\ Cardinality(Events(c, {"open"})') <= 1
              /\ \A i \in OfsHeads(c)' :
                    LET b == EdgeBaseKey[t[i].key]
                    IN  /\ i < Len(t) =>
                            \/ /\ t[i + 1] = Ev("hit", b, 0)
                               /\ \A j \in 1..Len(t) : ~(t[j].op \in IoOps /\ t[j].key = b)
                            \/ /\ t[i + 1].op = "head" /\ t[i + 1].key = b
                            \/ /\ t[i + 1].op = "close"
                               /\ calls'[c].err = "EIO" \/ Top(calls'[c]).out.err = "EIO"
                        /\ (/\ c \in 1..Len(calls) => i > Len(calls[c].trace)
                            /\ b \in DOMAIN heap[calls'[c].store].packedObjectCache)
                           => i < Len(t) /\ t[i + 1] = Ev("hit", b, 0)
              /\ calls'[c].status = "ok" =>
                    \A i \in Events(c, {"head", "hit"})' :
                        /\ t[i].key \in DOMAIN cache
                        /\ t[i].op = "head" /\ t[i].n = OFS_DELTA =>
                              EdgeBaseKey[t[i].key] \in DOMAIN cache]_vars

\* two resolves of Z have returned its bytes: one read Z, V and U through
\* one handle, the other found V cached; U, which no index lists, is cached
C16_Witness ==
    /\ \E c \in CallIds :
        /\ calls[c].hash = HashOf(29) /\ calls[c].status = "ok"
        /\ [i \in 1..Len(calls[c].trace) |-> calls[c].trace[i].op]
              = <<"open", "head", "head", "head", "read", "inflate", "set",
                  "read", "inflate", "patch", "set",
                  "read", "inflate", "patch", "set", "close">>
    /\ \E c \in CallIds :
        /\ calls[c].hash = HashOf(29) /\ calls[c].status = "ok"
        /\ [i \in 1..Len(calls[c].trace) |-> calls[c].trace[i].op]
              = <<"open", "head", "hit", "read", "inflate", "patch", "set", "close">>
    /\ <<0, 200>> \in DOMAIN heap[D2].packedObjectCache
    /\ \A h \in DOMAIN heap[D2].packedIndexMap :
          KeyOf(heap[D2].packedIndexMap[h]) # <<0, 200>>

(***************************************************************************)
(* Claims about the header decoder.                                        *)
(***************************************************************************)
RECURSIVE Pow128(_)
Pow128(n) == IF n = 0 THEN 1 ELSE 128 * Pow128(n - 1)

\* the sum over i = from..k of (b[i] & 0x7f) * 16 * 128^(i-1), b[0] being
\* the first byte of b
RECURSIVE SizeSum(_, _, _)
SizeSum(b, from, k) ==
    IF from > k THEN 0
    ELSE (b[from + 1] % 128) * 16 * Pow128(from - 1) + SizeSum(b, from + 1, k)

\* the header bytes b[0..k] of buffer b: k is the first position whose byte
\* has bit 7 clear (Len(b): there is none)
HeaderEnd(b) ==
    IF \E i \in 1..Len(b) : b[i] < 128
    THEN (CHOOSE i \in 1..Len(b) : b[i] < 128 /\ \A j \in 1..(i - 1) : b[j] >= 128) - 1
    ELSE Len(b)

\* C17: for a buffer that starts with header bytes b0..bk of which exactly
\* b0..b(k-1) have bit 7 set, the decoder gives type = bits 4-6 of b0,
\* size = (b0 & 15) + the sum over i = 1..k of (bi & 0x7f) * 16 * 128^(i-1),
\* and offset = k + 1, whatever bytes follow.
C17_HeaderDecoded ==
    (probe.done /\ HeaderEnd(probe.in) < Len(probe.in)) =>
        LET b == probe.in
            k == HeaderEnd(b)
        IN  /\ probe.out.type = (b[1] \div 16) % 8
            /\ probe.out.size = (b[1] % 16) + SizeSum(b, 1, k)
            /\ probe.out.offset = k + 1

\* a header of three bytes has been decoded: type 6, size 5 + 101 * 16 +
\* 23 * 2048, offset 3
C17_Witness ==
    /\ probe.done
    /\ probe.in = <<229, 229, 23>>
    /\ probe.out = [type |-> 6, size |-> 48725, offset |-> 3]

(***************************************************************************)
(* Claims about the two entry points together.                             *)
(***************************************************************************)
\* C19: however initialize(dir) and initializeSync(dir) calls for one
\* directory interleave, while the cache evicts nothing, there is one Packs
\* of the directory: every caller is given the same instance, and the cache
\* entry of the directory is never replaced by another instance.
C19_OneStorePerDirectory ==
    \A d \in StoreDirs :
        /\ Cardinality(received[d]) <= 1
        /\ Cardinality({s \in DOMAIN heap : s[1] = d}) <= 1

(***************************************************************************)
(* Claims about the two resolution paths.                                  *)
(***************************************************************************)
\* the number of the I/O request of call c that failed, if one did: the
\* one after its opens and reads that succeeded
FaultAt(c, faulted) ==
    IF faulted THEN Cardinality(Events(c, {"open", "head", "read"})) + 1 ELSE 0

\* what unpackGitObjectSync(hash) of call c does on the Packs of d1 with the
\* decoded-object cache given and no file open, its I/O request number
\* failAt failing
Blocking(c, cache, failAt) ==
    Outcome(unpackGitObjectSync(
                calls[c].hash,
                [NewMachine(D1, c) EXCEPT !.cache = cache, !.fds = {}, !.sets = EmptyMap],
                failAt))

\* call c has ended as the blocking call r
SameAs(c, r) ==
    /\ calls[c].status = r.status
    /\ calls[c].val = r.val
    /\ calls[c].err = r.err
    /\ calls[c].at = r.at
    /\ calls[c].trace = r.trace
    /\ heap[D1].packedObjectCache = r.cache
    /\ openFds = r.fds

\* the suspending call 2 after the blocking call 1, which ended as r1
SameAfter(f1, r1) ==
    SameAs(2, Blocking(2, r1.cache, FaultAt(2, nfaults > (IF f1 THEN 1 ELSE 0))))

\* C20: a suspending resolve that runs without another call in between
\* ends as the blocking resolve of the same hash does from the same state
\* of the Packs, with the same I/O failure if any: the same bytes or the
\* same error, the same sequence of opens, reads, inflates and closes, the
\* same decoded-object cache.  The states started from are the new Packs
\* and the Packs after one blocking call.
C20_PathsEquivalent ==
    /\ (Len(calls) = 1 /\ calls[1].mode = "async" /\ Done(1)) =>
          SameAs(1, Blocking(1, EmptyMap, FaultAt(1, nfaults > 0)))
    /\ (Len(calls) = 2 /\ calls[1].mode = "sync" /\ calls[2].mode = "async" /\ Done(2)) =>
          SameAfter(calls[1].err \in IoErrors,
                    Blocking(1, EmptyMap, FaultAt(1, calls[1].err \in IoErrors)))

\* after a blocking resolve of B, a suspending resolve of the REF_DELTA E
\* found its base A cached and failed in the read of its payload, the
\* third I/O request, as the blocking resolve does
C20_Witness ==
    /\ Len(calls) = 2
    /\ calls[1].mode = "sync" /\ calls[1].hash = HashOf(2) /\ calls[1].status = "ok"
    /\ calls[2].mode = "async" /\ calls[2].hash = HashOf(9)
    /\ calls[2].status = "err" /\ calls[2].err = "EIO"
    /\ [i \in 1..Len(calls[2].trace) |-> calls[2].trace[i].op]
          = <<"open", "head", "hit", "close">>
    /\ SameAs(2, Blocking(2, heap[D1].packedObjectCache, 3))

=========================================================================
